---- MODULE Spec2Model ----
(***************************************************************************)
(* A model of the offline message store (src/storage.py, src/pull.py) and  *)
(* of the watch/automation engine (src/watch.py, fed by src/server.py).    *)
(*                                                                         *)
(* The engine runs on one asyncio event loop: a coroutine runs without     *)
(* interruption from one await to the next, so every action below is the   *)
(* code between two awaits.  External processes (the spawned commands)     *)
(* are not bound to the loop and may step at any time.                     *)
(***************************************************************************)
EXTENDS Integers, Sequences, FiniteSets, TLC

\* ------------------------------------------------------------------ bounds
\* The dedup ceiling of watch.py (10000 there), scaled to the model.
MAX_SEEN == 2
\* Frames the transport hands over in one run of the ingestion model.
MaxFrames == 4
\* Frames handed over in one run of the workflow model (so many workflows).
MaxWfFrames == 2
\* process_message tasks created and not yet run.
MaxPending == 2
\* Calls of load_config in one run.
MaxLoads == 1
\* frames received where the commands' results are told apart
MaxCmdFrames == 1
\* Writes json.dump makes to put one payload into the temporary file.
PayloadParts == 2
\* Calls into the message store in one run.
MaxStoreOps == 3
\* Instants datetime.now() can return in one run.
MaxClock == 2
\* inbox commands in one run
MaxCommands == 2
\* Calls of load_config in one run of the reload model.
MaxReloads == 2
\* Frames handed over in one run of the reload model.
MaxReloadFrames == 2

\* ------------------------------------------------------------------ values
\* Python's None, for the string-valued fields.
None == "None"

\* message.get("subtype") / thread_ts / text are used by truthiness.
Truthy(v) == v # None /\ v # ""

CH1 == "C1"
CH2 == "C2"
ChannelIds == {CH1, CH2}

TS1 == "1.0"
TS2 == "2.0"
Timestamps == {TS1, TS2}

Keys == ChannelIds \X Timestamps

\* Texts are sequences of characters.
TextPi == <<"P", "i">>
TextXi == <<"x", "i">>
TextLowerPi == <<"p", "i">>

\* The live messages of the workspace: a (channel, ts) pair names one message,
\* and a redelivery of it carries the same fields.
MessageEvent(c, t) ==
  [type |-> "message", subtype |-> None, channel |-> c, ts |-> t,
   user |-> "U1",
   text |-> IF c = CH1 THEN (IF t = TS1 THEN TextPi ELSE TextXi)
                       ELSE (IF t = TS1 THEN TextPi ELSE TextLowerPi),
   thread_ts |-> IF t = TS2 THEN TS1 ELSE None]

\* Frames that are not new messages: an edit, and a non-message event.
EditEvent ==
  [type |-> "message", subtype |-> "message_changed", channel |-> CH1,
   ts |-> TS1, user |-> "U1", text |-> TextPi, thread_ts |-> None]

OtherEvent ==
  [type |-> "reaction_added", subtype |-> None, channel |-> CH1,
   ts |-> TS1, user |-> "U1", text |-> TextPi, thread_ts |-> None]

Events == {MessageEvent(k[1], k[2]) : k \in Keys} \cup {EditEvent, OtherEvent}

\* ------------------------------------------------------------------ patterns
\* re.IGNORECASE folds case; the alphabet here has one upper-case letter.
Lower(ch) == IF ch = "P" THEN "p" ELSE ch

Fold(s, icase) == IF icase THEN [i \in 1..Len(s) |-> Lower(s[i])] ELSE s

\* pattern.search(text) for a literal pattern: some substring of text is the
\* pattern (the empty literal, like ".*", is found in every text).
Search(pat, text) ==
  LET p == Fold(pat.lit, pat.icase)
      s == Fold(text, pat.icase)
  IN \E i \in 1..(Len(s) + 1) :
        /\ i + Len(p) - 1 <= Len(s)
        /\ SubSeq(s, i, i + Len(p) - 1) = p

\* WatchRule.matches: bool(self.pattern.search(text or ""))
RuleMatches(rule, text) == Search(rule.pattern, text)

\* ------------------------------------------------------------------ config
\* config.yaml's watch section: channel name -> list of rule data, in file
\* order.  A pattern is a literal (lit) or text re.compile rejects (valid =
\* FALSE); case_insensitive defaults to TRUE, reply to FALSE.
RuleData(lit, valid, shell, reply, icase) ==
  [lit |-> lit, valid |-> valid, shell |-> shell, reply |-> reply,
   case_insensitive |-> icase]

WatchSection ==
  << [name |-> "general",
      rules |-> << RuleData(<<"p", "i">>, TRUE, "cmd1", TRUE, TRUE),
                   RuleData(<<"(">>, FALSE, "cmdbad", FALSE, TRUE),
                   RuleData(<<"i">>, TRUE, "cmd2", FALSE, FALSE),
                   RuleData(<<"x">>, TRUE, "", FALSE, TRUE) >>],
     [name |-> "ghost",
      rules |-> << RuleData(<<>>, TRUE, "cmdghost", FALSE, TRUE) >>],
     [name |-> CH2,
      rules |-> << RuleData(<<"p", "i">>, TRUE, "cmd3", TRUE, FALSE) >>] >>

ChannelNames == {WatchSection[i].name : i \in 1..Len(WatchSection)}

\* A pattern re.compile rejects with OverflowError: a{99999999999}.
TooManyRepeats == <<"a", "{", "9", "}">>

\* A watch section with such a pattern between two good rules.
OverflowSection ==
  << [name |-> "general",
      rules |-> << RuleData(<<"p", "i">>, TRUE, "cmd1", TRUE, TRUE),
                   RuleData(TooManyRepeats, FALSE, "cmdbig", FALSE, TRUE),
                   RuleData(<<"i">>, TRUE, "cmd2", FALSE, FALSE) >>],
     [name |-> CH2,
      rules |-> << RuleData(<<"p", "i">>, TRUE, "cmd3", TRUE, FALSE) >>] >>

\* What the file system holds for config.yaml at a load.
ConfigFiles == {"missing", "invalid", "nowatch", "watch"}

\* The same, and a file with the second watch section.
ReloadFiles == ConfigFiles \cup {"overflow"}

\* data["watch"] of a file that has a watch section.
Section(file) == IF file = "overflow" THEN OverflowSection ELSE WatchSection

\* re.compile(pattern_str, flags): a pattern, re.error, or another exception.
ReCompile(d) ==
  IF d.valid THEN "pattern"
  ELSE IF d.lit = TooManyRepeats THEN "OverflowError"
  ELSE "re.error"

\* The channel resolver collaborator (server._resolve_channel_for_watch):
\* an identifier, or nothing (None, or an exception that is caught).
ResolverResults(name) == IF name = "general" THEN {CH1, None} ELSE {None}

\* re.match(r'^[CDG][A-Z0-9]{8,}$', name)
IsChannelId(name) == name \in ChannelIds

\* The inner loop of load_config over one channel's rule data: the rules it
\* appends, and whether it left by an exception that is not re.error.
RECURSIVE CompileRules(_, _, _, _)
CompileRules(datas, j, channel_id, channel_name) ==
  IF j > Len(datas) THEN [rules |-> <<>>, raised |-> FALSE]
  ELSE LET d == datas[j]
           rest == CompileRules(datas, j + 1, channel_id, channel_name)
       IN IF d.shell = "" THEN rest
          ELSE IF ReCompile(d) = "re.error" THEN rest
          ELSE IF ReCompile(d) # "pattern"
          THEN [rules |-> <<>>, raised |-> TRUE]
          ELSE [rules |->
                  << [pattern |-> [lit |-> d.lit, icase |-> d.case_insensitive],
                      shell |-> d.shell,
                      channel_id |-> channel_id,
                      channel_name |-> channel_name,
                      reply |-> d.reply] >> \o rest.rules,
                raised |-> rest.raised]

\* load_config's outer loop over section sec from channel i on, run up to the
\* next call of the resolver collaborator (the only await that suspends), to
\* its end ("done") or to an exception ("raised").  resolved is the
\* collaborator's answer for channel i when the loop resumes from that await
\* ("" when channel i has not been asked yet).
RECURSIVE RunLoad(_, _, _, _, _)
RunLoad(sec, i, built, cache, resolved) ==
  IF i > Len(sec)
  THEN [state |-> "done", i |-> i, rules |-> built, cache |-> cache]
  ELSE LET name == sec[i].name
           datas == sec[i].rules
           channel_id == IF cache[name] # None THEN cache[name]
                         ELSE IF IsChannelId(name) THEN name
                         ELSE resolved
           compiled == CompileRules(datas, 1, channel_id, name)
           cached == IF cache[name] # None THEN cache
                     ELSE [cache EXCEPT ![name] = channel_id]
       IN IF channel_id = ""
          THEN [state |-> "await", i |-> i, rules |-> built, cache |-> cache]
          ELSE IF ~Truthy(channel_id)
          THEN RunLoad(sec, i + 1, built, cache, "")
          ELSE IF compiled.raised
          THEN [state |-> "raised", i |-> i, rules |-> built, cache |-> cached]
          ELSE RunLoad(sec, i + 1, built \o compiled.rules, cached, "")

\* ------------------------------------------------------------------ state
VARIABLES
  running,        \* WatchEngine._running
  stats,          \* WatchEngine._stats
  seen,           \* watch._seen_messages
  rules,          \* WatchEngine.config.rules
  channel_cache,  \* WatchEngine.config._channel_cache
  load,           \* the load_config call in flight, if any
  pending,        \* process_message tasks created by the frame callback
  wfs,            \* the _execute_shell tasks, in creation order
  fs,             \* the files buffer.json and buffer.tmp
  loop_owner,     \* the workflow holding the event loop inside its write block
  last,           \* history: the last process_message call and its result
  evicted,        \* history: the dedup window has run its bulk eviction
  frames,         \* history: frames received
  loads           \* history: load_config calls started

engineVars == <<running, stats, seen, rules, channel_cache, load, pending,
                wfs, fs, loop_owner, last, evicted, frames, loads>>

\* The message store's state.
VARIABLES
  files,       \* storage/<address>.md: the record each address holds, if any
  now,         \* the instant datetime.now() returns
  store_last,  \* history: the last call into the store and its result
  pull_stats,  \* pull's stats: fetched, stored, skipped
  store_ops,   \* history: calls into the store
  read_events, \* storage/read_events.yaml: the legacy set of read event ids
  cmd_last     \* history: the last inbox command and how it ended

storeVars == <<files, now, store_last, pull_stats, store_ops, read_events,
               cmd_last>>

vars == <<running, stats, seen, rules, channel_cache, load, pending, wfs, fs,
          loop_owner, last, evicted, frames, loads,
          files, now, store_last, pull_stats, store_ops, read_events,
          cmd_last>>

StatNames == {"messages_processed", "messages_matched", "commands_executed",
              "replies_posted", "duplicates_skipped", "errors"}

Bump(st, name) == [st EXCEPT ![name] = @ + 1]

NoLoad == [active |-> FALSE, i |-> 0, rules |-> <<>>, file |-> "none"]

NoCall == [n |-> 0, event |-> OtherEvent, ret |-> FALSE, dup |-> "skipped",
           rule |-> 0]

\* ------------------------------------------------------------------ dedup
\* list(_seen_messages)[:MAX_SEEN // 2]: a set has no order the code controls
\* (tuples of str hash differently in every process), so the slice is any
\* MAX_SEEN // 2 of the entries.
EvictChoices(s) == {r \in SUBSET s : Cardinality(r) = MAX_SEEN \div 2}

\* _is_duplicate without its _seen_messages.add(key).
IsDuplicateNoAdd(window, key) ==
  IF key \in window
  THEN {[dup |-> TRUE, seen |-> window, evict |-> FALSE]}
  ELSE {[dup |-> FALSE, seen |-> window, evict |-> FALSE]}

\* _is_duplicate without its trim.
IsDuplicateNoTrim(window, key) ==
  IF key \in window
  THEN {[dup |-> TRUE, seen |-> window, evict |-> FALSE]}
  ELSE {[dup |-> FALSE, seen |-> window \cup {key}, evict |-> FALSE]}

\* _is_duplicate that takes a key in the window for a new one.
IsDuplicateNeverDup(window, key) ==
  {[dup |-> FALSE, seen |-> window \cup {key}, evict |-> FALSE]}

\* WatchEngine._is_duplicate: the possible (result, window) pairs.
IsDuplicateOutcomes(window, key) ==
  IF key \in window
  THEN {[dup |-> TRUE, seen |-> window, evict |-> FALSE]}
  ELSE LET added == window \cup {key}
       IN IF Cardinality(added) > MAX_SEEN
          THEN {[dup |-> FALSE, seen |-> added \ r, evict |-> TRUE] :
                   r \in EvictChoices(added)}
          ELSE {[dup |-> FALSE, seen |-> added, evict |-> FALSE]}

\* ------------------------------------------------------------------ matching
\* WatchEngine.is_running, and process_message's own test of _running.
IsRunningAlways == TRUE

IsRunning == running

\* process_message's early returns: only literal new messages are eligible.
EligibleAnySubtype(m) == m.type = "message"

Eligible(m) == m.type = "message" /\ ~Truthy(m.subtype)

\* The scan without its return at the first match: the last match wins.
RECURSIVE ScanRulesLast(_, _, _, _)
ScanRulesLast(rs, i, channel, text) ==
  IF i > Len(rs) THEN 0
  ELSE LET later == ScanRulesLast(rs, i + 1, channel, text)
       IN IF later # 0 THEN later
          ELSE IF rs[i].channel_id = channel /\ RuleMatches(rs[i], text) THEN i
          ELSE 0

\* The for loop of process_message: the index of the first rule whose channel
\* and pattern match, 0 when the loop falls through.
RECURSIVE ScanRules(_, _, _, _)
ScanRules(rs, i, channel, text) ==
  IF i > Len(rs) THEN 0
  ELSE IF rs[i].channel_id # channel THEN ScanRules(rs, i + 1, channel, text)
  ELSE IF RuleMatches(rs[i], text) THEN i
  ELSE ScanRules(rs, i + 1, channel, text)

\* What a command leaves on a pipe: bytes, here a sequence of characters, or
\* bytes that are not UTF-8.
Undecodable == <<"\\xff">>

\* How a command can end: its exit status and what it wrote.
CommandResult(rc, out, err) == [rc |-> rc, stdout |-> out, stderr |-> err]

CommandResults ==
  {CommandResult(0, <<"p", "\n">>, <<>>),
   CommandResult(0, <<"p", "\n">>, <<"e">>),
   CommandResult(0, <<>>, <<" ">>),
   CommandResult(0, <<>>, <<"e">>),
   CommandResult(0, Undecodable, <<>>),
   CommandResult(0, <<>>, Undecodable),
   CommandResult(1, <<>>, <<"e">>),
   CommandResult(1, <<>>, Undecodable)}

\* A command that succeeds with output, and one that fails.
PlainResults ==
  {CommandResult(0, <<"p", "\n">>, <<>>), CommandResult(1, <<>>, <<"e">>)}

Whitespace == {" ", "\n"}

\* str.strip()
RECURSIVE Strip(_)
Strip(s) ==
  IF s = <<>> THEN s
  ELSE IF Head(s) \in Whitespace THEN Strip(Tail(s))
  ELSE IF s[Len(s)] \in Whitespace THEN Strip(SubSeq(s, 1, Len(s) - 1))
  ELSE s

\* The reply's text without any strip.
ReplyOutputUnstripped(stdout, stderr) ==
  IF stderr # <<>> THEN stdout \o <<"\n">> \o stderr ELSE stdout

\* The reply's text: stdout stripped, then a newline and the stripped stderr
\* if there is any, the whole stripped again.
ReplyOutput(stdout, stderr) ==
  LET output == Strip(stdout)
      stderr_text == Strip(stderr)
  IN IF stderr # <<>> /\ stderr_text # <<>>
     THEN Strip(output \o <<"\n">> \o stderr_text)
     ELSE output

\* No call of the publisher.
NoReply == [channel |-> None, text |-> <<>>, thread_ts |-> None]

\* The task process_message creates for a match.
NewWorkflow(rule, m) ==
  [rule |-> rule, channel |-> m.channel, user |-> m.user, ts |-> m.ts,
   text |-> m.text, thread_ts |-> m.thread_ts,
   pc |-> "created", context |-> FALSE, todo |-> {}, resolutions |-> {},
   part |-> 0, rc |-> 0, stdout |-> <<>>, stderr |-> <<>>,
   reply_to |-> NoReply, execs |-> 0, outcomes |-> {}]

\* WatchEngine.process_message on message m: every result it can have.
ProcessOutcomes(m) ==
  IF ~IsRunning \/ ~Eligible(m)
  THEN {[ret |-> FALSE, stats |-> stats, seen |-> seen, rule |-> 0,
         dup |-> "skipped", evict |-> FALSE]}
  ELSE { IF d.dup
         THEN [ret |-> FALSE, stats |-> Bump(stats, "duplicates_skipped"),
               seen |-> d.seen, rule |-> 0, dup |-> "dup", evict |-> d.evict]
         ELSE LET st == Bump(stats, "messages_processed")
                  r == ScanRules(rules, 1, m.channel, m.text)
              IN IF r # 0
                 THEN [ret |-> TRUE, stats |-> Bump(st, "messages_matched"),
                       seen |-> d.seen, rule |-> r, dup |-> "new",
                       evict |-> d.evict]
                 ELSE [ret |-> FALSE, stats |-> st, seen |-> d.seen,
                       rule |-> 0, dup |-> "new", evict |-> d.evict]
         : d \in IsDuplicateOutcomes(seen, <<m.channel, m.ts>>) }

\* The loop as it would be were the command run with a blocking call.
LoopFreeBlocking ==
  loop_owner = 0 /\ \A w \in 1..Len(wfs) : wfs[w].pc # "running"

\* Coroutines run only when no other coroutine is between two awaits.
LoopFree == loop_owner = 0

\* ------------------------------------------------------------------ engine
\* WatchEngine.start
Start ==
  /\ LoopFree
  /\ running' = TRUE
  /\ UNCHANGED <<stats, seen, rules, channel_cache, load, pending, wfs, fs,
                 loop_owner, last, evicted, frames, loads>>
  /\ UNCHANGED storeVars

\* A stop that also cancels the tasks in flight.
StopCancelling ==
  /\ LoopFree
  /\ running' = FALSE
  /\ wfs' = [w \in 1..Len(wfs) |->
              IF wfs[w].pc = "done" THEN wfs[w]
              ELSE [wfs[w] EXCEPT !.pc = "cancelled"]]
  /\ UNCHANGED <<stats, seen, rules, channel_cache, load, pending, fs,
                 loop_owner, last, evicted, frames, loads>>
  /\ UNCHANGED storeVars

\* WatchEngine.stop
Stop ==
  /\ LoopFree
  /\ running' = FALSE
  /\ UNCHANGED <<stats, seen, rules, channel_cache, load, pending, wfs, fs,
                 loop_owner, last, evicted, frames, loads>>
  /\ UNCHANGED storeVars

\* A load that makes the list it has built so far the active one at every
\* stop.
LoadToPartial(r, file) ==
  /\ channel_cache' = r.cache
  /\ rules' = r.rules
  /\ load' = IF r.state = "await"
             THEN [active |-> TRUE, i |-> r.i, rules |-> r.rules, file |-> file]
             ELSE NoLoad

\* The state load_config leaves when its loop over file's section stops at
\* r: self.config.rules is assigned when the loop has ended, and only then.
LoadTo(r, file) ==
  /\ channel_cache' = r.cache
  /\ rules' = IF r.state = "done" THEN r.rules ELSE rules
  /\ load' = IF r.state = "await"
             THEN [active |-> TRUE, i |-> r.i, rules |-> r.rules, file |-> file]
             ELSE NoLoad

\* WatchEngine.load_config, from its call to its first suspension or its
\* end, for at most cap calls.
Load(file, cap) ==
  /\ LoopFree
  /\ ~load.active
  /\ loads < cap
  /\ loads' = loads + 1
  /\ IF file \in {"watch", "overflow"}
     THEN LoadTo(RunLoad(Section(file), 1, <<>>, channel_cache, ""), file)
     ELSE UNCHANGED <<rules, channel_cache, load>>
  /\ UNCHANGED <<running, stats, seen, pending, wfs, fs, loop_owner, last,
                 evicted, frames>>
  /\ UNCHANGED storeVars

LoadConfig(file) == Load(file, MaxLoads)

\* load_config resumed by the channel resolver's answer.
LoadResume(res) ==
  /\ LoopFree
  /\ load.active
  /\ res \in ResolverResults(Section(load.file)[load.i].name)
  /\ LoadTo(RunLoad(Section(load.file), load.i, load.rules, channel_cache, res),
            load.file)
  /\ UNCHANGED <<running, stats, seen, pending, wfs, fs, loop_owner, last,
                 evicted, frames, loads>>
  /\ UNCHANGED storeVars

\* server.on_ws_frame_received: a task per frame while the engine runs.
FrameReceived(m, cap) ==
  /\ LoopFree
  /\ frames < cap
  /\ Len(pending) < MaxPending
  /\ frames' = frames + 1
  /\ pending' = IF IsRunning THEN Append(pending, m) ELSE pending
  /\ UNCHANGED <<running, stats, seen, rules, channel_cache, load, wfs, fs,
                 loop_owner, last, evicted, loads>>
  /\ UNCHANGED storeVars

\* A process_message task runs (it has no await: one step).
ProcessMessage ==
  /\ LoopFree
  /\ pending # <<>>
  /\ LET m == Head(pending)
     IN \E o \in ProcessOutcomes(m) :
          /\ pending' = Tail(pending)
          /\ stats' = o.stats
          /\ seen' = o.seen
          /\ evicted' = (evicted \/ o.evict)
          /\ wfs' = IF o.rule # 0
                    THEN Append(wfs, NewWorkflow(rules[o.rule], m))
                    ELSE wfs
          /\ last' = [n |-> last.n + 1, event |-> m, ret |-> o.ret,
                      dup |-> o.dup, rule |-> o.rule]
  /\ UNCHANGED <<running, rules, channel_cache, load, fs, loop_owner, frames,
                 loads>>
  /\ UNCHANGED storeVars

\* ------------------------------------------------------------------ workflow
\* BUFFER_FILE and BUFFER_FILE.with_suffix(".tmp")
BufferPath == "buffer.json"

\* The payload written straight to the buffer path.
DirectPath == "buffer.json"

TempPath == "buffer.tmp"

AbsentFile == [exists |-> FALSE, data |-> <<>>]

\* open(path, "w"): the file exists and is empty.
OpenTruncate(f, path) == [f EXCEPT ![path] = [exists |-> TRUE, data |-> <<>>]]

\* One write of json.dump by workflow w.
WriteChunk(f, path, w, k) ==
  [f EXCEPT ![path].data = Append(@, [wf |-> w, part |-> k])]

\* Path.rename: dst atomically becomes what src was.
Rename(f, src, dst) ==
  IF src = dst THEN f ELSE [f EXCEPT ![dst] = f[src], ![src] = AbsentFile]

\* The context-fetch collaborator's messages mention one more user.
ContextIds == {"U2"}

\* storage/_cache: the identifiers the users and channels caches hold.
CachedIds == {CH1}

\* _extract_slack_ids over the composed payload.
ExtractIds(wf) ==
  {wf.user, wf.channel} \cup (IF wf.context THEN ContextIds ELSE {})

IsUserId(id) == id \in {"U1", "U2"}

\* _resolve_slack_ids_async up to its first call of the resolver: cached
\* identifiers are resolved at once, uncached users are asked for, uncached
\* channels are left out.
AfterExtract(wf) ==
  LET ids == ExtractIds(wf)
  IN [wf EXCEPT !.resolutions = ids \cap CachedIds,
                !.todo = {id \in ids \ CachedIds : IsUserId(id)}]

\* A workflow that calls for its command without writing its payload.
ProceedSkippingWrite(w, wf) ==
  IF wf.todo = {}
  THEN /\ wfs' = [wfs EXCEPT ![w] = [wf EXCEPT !.pc = "spawn"]]
       /\ loop_owner' = loop_owner
  ELSE /\ wfs' = [wfs EXCEPT ![w] = [wf EXCEPT !.pc = "resolve"]]
       /\ loop_owner' = loop_owner

\* A workflow that ends when a user of its payload stayed unresolved.
ProceedAborting(w, wf) ==
  IF wf.todo = {}
  THEN IF {id \in ExtractIds(wf) : IsUserId(id)} \subseteq wf.resolutions
       THEN /\ wfs' = [wfs EXCEPT ![w] = [wf EXCEPT !.pc = "write"]]
            /\ loop_owner' = w
       ELSE /\ wfs' = [wfs EXCEPT ![w] = [wf EXCEPT !.pc = "done"]]
            /\ loop_owner' = loop_owner
  ELSE /\ wfs' = [wfs EXCEPT ![w] = [wf EXCEPT !.pc = "resolve"]]
       /\ loop_owner' = loop_owner

\* The workflow goes on to its write block, or waits for the resolver.
Proceed(w, wf) ==
  IF wf.todo = {}
  THEN /\ wfs' = [wfs EXCEPT ![w] = [wf EXCEPT !.pc = "write"]]
       /\ loop_owner' = w
  ELSE /\ wfs' = [wfs EXCEPT ![w] = [wf EXCEPT !.pc = "resolve"]]
       /\ loop_owner' = loop_owner

\* _execute_shell starts: buffer_data is built, the context fetch is awaited.
WfStart(w) ==
  /\ LoopFree
  /\ wfs[w].pc = "created"
  /\ wfs' = [wfs EXCEPT ![w].pc = "fetch"]
  /\ UNCHANGED <<running, stats, seen, rules, channel_cache, load, pending, fs,
                 loop_owner, last, evicted, frames, loads>>
  /\ UNCHANGED storeVars

\* The context fetch returns (a list, an empty list, or an exception).
WfFetchReturn(w, r) ==
  /\ LoopFree
  /\ wfs[w].pc = "fetch"
  /\ Proceed(w, AfterExtract([wfs[w] EXCEPT !.context = (r = "context")]))
  /\ UNCHANGED <<running, stats, seen, rules, channel_cache, load, pending, fs,
                 last, evicted, frames, loads>>
  /\ UNCHANGED storeVars

\* The resolver returns for one uncached user (data, None, or an exception).
WfResolveReturn(w, id, r) ==
  /\ LoopFree
  /\ wfs[w].pc = "resolve"
  /\ id \in wfs[w].todo
  /\ Proceed(w, [wfs[w] EXCEPT
                   !.todo = @ \ {id},
                   !.resolutions = IF r = "data" THEN @ \cup {id} ELSE @])
  /\ UNCHANGED <<running, stats, seen, rules, channel_cache, load, pending, fs,
                 last, evicted, frames, loads>>
  /\ UNCHANGED storeVars

\* A coroutine's locals that are not read again are dropped from the state:
\* buffer_data once it is dumped, the command's result once it is used.
Forget(wf, pc) ==
  [wf EXCEPT !.pc = pc, !.context = FALSE, !.todo = {}, !.resolutions = {},
             !.part = 0, !.rc = 0, !.stdout = <<>>, !.stderr = <<>>]

\* history: the outcomes the workflow has reached (its command executed, a
\* reply published, an error).
Reached(wf, outcomes) == [wf EXCEPT !.outcomes = @ \cup outcomes]

\* open(temp_path, "w")
WfOpenTemp(w) ==
  /\ loop_owner = w
  /\ wfs[w].pc = "write"
  /\ fs' = OpenTruncate(fs, TempPath)
  /\ wfs' = [wfs EXCEPT ![w].pc = "dump", ![w].part = 0]
  /\ UNCHANGED <<running, stats, seen, rules, channel_cache, load, pending,
                 loop_owner, last, evicted, frames, loads>>
  /\ UNCHANGED storeVars

\* json.dump(buffer_data, f): one write; the file is closed after the last.
WfDump(w) ==
  /\ loop_owner = w
  /\ wfs[w].pc = "dump"
  /\ fs' = WriteChunk(fs, TempPath, w, wfs[w].part + 1)
  /\ wfs' = [wfs EXCEPT ![w].part = @ + 1,
                        ![w].pc = IF wfs[w].part + 1 = PayloadParts
                                  THEN "rename" ELSE "dump"]
  /\ UNCHANGED <<running, stats, seen, rules, channel_cache, load, pending,
                 loop_owner, last, evicted, frames, loads>>
  /\ UNCHANGED storeVars

\* temp_path.rename(BUFFER_FILE), then create_subprocess_shell is awaited.
WfRename(w) ==
  /\ loop_owner = w
  /\ wfs[w].pc = "rename"
  /\ fs' = Rename(fs, TempPath, BufferPath)
  /\ wfs' = [wfs EXCEPT ![w] = Forget(@, "spawn")]
  /\ loop_owner' = 0
  /\ UNCHANGED <<running, stats, seen, rules, channel_cache, load, pending,
                 last, evicted, frames, loads>>
  /\ UNCHANGED storeVars

\* create_subprocess_shell returns the process, or raises.
WfSpawnReturn(w, r) ==
  /\ LoopFree
  /\ wfs[w].pc = "spawn"
  /\ IF r = "ok"
     THEN /\ wfs' = [wfs EXCEPT ![w].pc = "running", ![w].execs = @ + 1]
          /\ stats' = stats
     ELSE /\ wfs' = [wfs EXCEPT ![w] = Reached(Forget(@, "done"), {"error"})]
          /\ stats' = Bump(stats, "errors")
  /\ UNCHANGED <<running, seen, rules, channel_cache, load, pending, fs,
                 loop_owner, last, evicted, frames, loads>>
  /\ UNCHANGED storeVars

\* The command, a process of its own, terminates.
CmdExit(w, res) ==
  /\ wfs[w].pc = "running"
  /\ wfs' = [wfs EXCEPT ![w].pc = "exited", ![w].rc = res.rc,
                        ![w].stdout = res.stdout, ![w].stderr = res.stderr]
  /\ UNCHANGED <<running, stats, seen, rules, channel_cache, load, pending, fs,
                 loop_owner, last, evicted, frames, loads>>
  /\ UNCHANGED storeVars

\* Every reply rooted at the triggering message itself.
ReplyThreadOwnTs(wf) == wf.ts

\* reply_thread_ts = thread_ts if thread_ts else ts
ReplyThread(wf) == IF Truthy(wf.thread_ts) THEN wf.thread_ts ELSE wf.ts

\* process.communicate() returns: the counters, and the reply if one is due.
\* bytes.decode() raises on bytes that are not UTF-8; the except clause at the
\* end of _execute_shell counts the error and ends the workflow.
WfCommunicateReturn(w) ==
  /\ LoopFree
  /\ wfs[w].pc = "exited"
  /\ LET wf == wfs[w]
         executed == Bump(stats, "commands_executed")
         failed == Bump(stats, "errors")
     IN IF wf.rc = 0
        THEN IF wf.stdout = Undecodable
             THEN /\ stats' = Bump(executed, "errors")
                  /\ wfs' = [wfs EXCEPT ![w] =
                               Reached(Forget(@, "done"), {"executed", "error"})]
             ELSE IF ~wf.rule.reply
             THEN /\ stats' = executed
                  /\ wfs' = [wfs EXCEPT ![w] =
                               Reached(Forget(@, "done"), {"executed"})]
             ELSE IF wf.stderr = Undecodable
             THEN /\ stats' = Bump(executed, "errors")
                  /\ wfs' = [wfs EXCEPT ![w] =
                               Reached(Forget(@, "done"), {"executed", "error"})]
             ELSE /\ stats' = executed
                  /\ wfs' =
                       IF ReplyOutput(wf.stdout, wf.stderr) # <<>>
                       THEN [wfs EXCEPT ![w] =
                               [Reached(Forget(@, "posting"), {"executed"})
                                  EXCEPT !.reply_to =
                                  [channel |-> wf.channel,
                                   text |-> ReplyOutput(wf.stdout, wf.stderr),
                                   thread_ts |-> ReplyThread(wf)]]]
                       ELSE [wfs EXCEPT ![w] =
                               Reached(Forget(@, "done"), {"executed"})]
        ELSE /\ stats' = IF wf.stderr = Undecodable
                         THEN Bump(failed, "errors") ELSE failed
             /\ wfs' = [wfs EXCEPT ![w] = Reached(Forget(@, "done"), {"error"})]
  /\ UNCHANGED <<running, seen, rules, channel_cache, load, pending, fs,
                 loop_owner, last, evicted, frames, loads>>
  /\ UNCHANGED storeVars

\* The publisher returns (True, False, or an exception).
WfPostReturn(w, r) ==
  /\ LoopFree
  /\ wfs[w].pc = "posting"
  /\ wfs' = [wfs EXCEPT ![w] =
               Reached([@ EXCEPT !.pc = "done"],
                       IF r = "true" THEN {"replied"} ELSE {"error"})]
  /\ stats' = IF r = "true" THEN Bump(stats, "replies_posted")
              ELSE Bump(stats, "errors")
  /\ UNCHANGED <<running, seen, rules, channel_cache, load, pending, fs,
                 loop_owner, last, evicted, frames, loads>>
  /\ UNCHANGED storeVars

Workflows == 1..Len(wfs)

\* The engine's API and the frame callback; the workflow tasks it creates stay
\* queued.
Next ==
  \/ Start
  \/ Stop
  \/ \E file \in ConfigFiles : LoadConfig(file)
  \/ \E res \in ChannelIds \cup {None} : LoadResume(res)
  \/ \E m \in Events : FrameReceived(m, MaxFrames)
  \/ ProcessMessage

\* The engine reloaded while frames arrive.
ReloadNext ==
  \/ Start
  \/ Stop
  \/ \E file \in ReloadFiles : Load(file, MaxReloads)
  \/ \E res \in ChannelIds \cup {None} : LoadResume(res)
  \/ \E m \in Events : FrameReceived(m, MaxReloadFrames)
  \/ ProcessMessage

\* What a load leaves when the resolver knows "general" (and not "ghost"):
\* the load runs to the await for "ghost", whose answer is None.
LoadedGeneral ==
  RunLoad(WatchSection, 1, <<>>, [n \in ChannelNames |-> None], CH1)

LoadedState ==
  RunLoad(WatchSection, LoadedGeneral.i, LoadedGeneral.rules,
          LoadedGeneral.cache, None)

LoadedRules == LoadedState.rules

LoadedCache == LoadedState.cache

\* The ingestion of a started engine and every step of its workflows.
WorkflowNext ==
  \/ Start
  \/ Stop
  \/ \E m \in Events : FrameReceived(m, MaxWfFrames)
  \/ ProcessMessage
  \/ \E w \in Workflows : WfStart(w)
  \/ \E w \in Workflows, r \in {"context", "empty", "raise"} :
       WfFetchReturn(w, r)
  \/ \E w \in Workflows, id \in {"U1", "U2"}, r \in {"data", "none", "raise"} :
       WfResolveReturn(w, id, r)
  \/ \E w \in Workflows : WfOpenTemp(w)
  \/ \E w \in Workflows : WfDump(w)
  \/ \E w \in Workflows : WfRename(w)
  \/ \E w \in Workflows, r \in {"ok", "raise"} : WfSpawnReturn(w, r)
  \/ \E w \in Workflows, res \in PlainResults : CmdExit(w, res)
  \/ \E w \in Workflows : WfCommunicateReturn(w)
  \/ \E w \in Workflows, r \in {"true", "false", "raise"} : WfPostReturn(w, r)

\* The same engine with fewer frames and every way a command can end.
CommandNext ==
  \/ Start
  \/ Stop
  \/ \E m \in Events : FrameReceived(m, MaxCmdFrames)
  \/ ProcessMessage
  \/ \E w \in Workflows : WfStart(w)
  \/ \E w \in Workflows, r \in {"context", "empty", "raise"} :
       WfFetchReturn(w, r)
  \/ \E w \in Workflows, id \in {"U1", "U2"}, r \in {"data", "none", "raise"} :
       WfResolveReturn(w, id, r)
  \/ \E w \in Workflows : WfOpenTemp(w)
  \/ \E w \in Workflows : WfDump(w)
  \/ \E w \in Workflows : WfRename(w)
  \/ \E w \in Workflows, r \in {"ok", "raise"} : WfSpawnReturn(w, r)
  \/ \E w \in Workflows, res \in CommandResults : CmdExit(w, res)
  \/ \E w \in Workflows : WfCommunicateReturn(w)
  \/ \E w \in Workflows, r \in {"true", "false", "raise"} : WfPostReturn(w, r)

\* Every step of workflow w: the event loop runs a task that is ready, the
\* collaborators answer, the command ends.
WfStep(w) ==
  /\ w \in Workflows
  /\ \/ WfStart(w)
     \/ \E r \in {"context", "empty", "raise"} : WfFetchReturn(w, r)
     \/ \E id \in {"U1", "U2"}, r \in {"data", "none", "raise"} :
          WfResolveReturn(w, id, r)
     \/ WfOpenTemp(w)
     \/ WfDump(w)
     \/ WfRename(w)
     \/ \E r \in {"ok", "raise"} : WfSpawnReturn(w, r)
     \/ \E res \in CommandResults : CmdExit(w, res)
     \/ WfCommunicateReturn(w)
     \/ \E r \in {"true", "false", "raise"} : WfPostReturn(w, r)

\* A task that can run is run.
CommandFairness == \A w \in 1..MaxCmdFrames : WF_vars(WfStep(w))

\* ------------------------------------------------------------------ store
\* Channel identifiers, timestamps and thread timestamps of the store are
\* sequences of characters; NoneS is Python's None for them.
NoneS == <<"None">>

TruthyS(v) == v # NoneS /\ v # <<>>

StoreChannels == {<<"C">>}

StoreTimestamps == {<<"1">>, <<"6">>}

StoreThreads == {NoneS, <<"1">>}

\* message_data: the fields of a raw message the record is built from; the
\* second text ends in a newline.
MessageDatas == {[user |-> "U1", text |-> "first"],
                 [user |-> "U2", text |-> "second\n"]}

NoData == [user |-> "", text |-> ""]

\* A key that leaves the thread out.
StorageKeyNoThread(channel_id, timestamp, thread_ts) ==
  channel_id \o <<":">> \o timestamp

\* The key generate_storage_id hashes: channel:timestamp[@thread_ts].
StorageKey(channel_id, timestamp, thread_ts) ==
  IF TruthyS(thread_ts)
  THEN channel_id \o <<":">> \o timestamp \o <<"@">> \o thread_ts
  ELSE channel_id \o <<":">> \o timestamp

\* hashlib.sha1(key).hexdigest(), cut to its first two digits, on the keys of
\* this model.
Sha1(key) ==
  CASE key = <<"C", ":", "1">> -> <<"c", "8">>
    [] key = <<"C", ":", "6">> -> <<"6", "8">>
    [] key = <<"C", ":", "1", "@", "1">> -> <<"d", "1">>
    [] key = <<"C", ":", "6", "@", "1">> -> <<"c", "9">>
    [] key = <<"C", ":", "1", "@", "6">> -> <<"1", "9">>
    [] key = <<"C", ":", "6", "@", "6">> -> <<"3", "b">>
    [] OTHER -> <<"0", "0">>

\* storage.generate_storage_id
generate_storage_id(channel_id, timestamp, thread_ts) ==
  Sha1(StorageKey(channel_id, timestamp, thread_ts))

Addresses ==
  {generate_storage_id(c, t, th) :
     c \in StoreChannels, t \in StoreTimestamps,
     th \in StoreThreads \cup StoreTimestamps}

\* What a stored file can be when it is not what write_message wrote: it
\* does not start with ---, has no closing ---, holds invalid YAML, holds
\* nothing between the fences, or holds YAML that is not a mapping.
Damages == {"nofence", "unterminated", "badyaml", "empty", "notmap"}

NoRecord ==
  [exists |-> FALSE, damage |-> "none",
   fm |-> [channel_id |-> NoneS, timestamp |-> NoneS, thread_ts |-> NoneS,
           user_id |-> "", text |-> "", stored_id |-> NoneS, stored_at |-> 0,
           read |-> FALSE, readAt |-> 0],
   body |-> [title |-> "", from |-> "", text |-> ""]]

\* storage.build_message_body: what the body shows of the frontmatter.
build_message_body(fm) ==
  [title |-> IF TruthyS(fm.thread_ts) THEN "Thread Reply" ELSE "Message",
   from |-> fm.user_id,
   text |-> IF fm.text # "" THEN fm.text ELSE "(no text)"]

\* storage.write_message: the files it leaves and what it returns.
WriteMessageOverwrite(fls, clock, channel_id, timestamp, message_data, thread_ts, skip_existing) ==
  LET storage_id == generate_storage_id(channel_id, timestamp, thread_ts)
      frontmatter == [channel_id |-> channel_id, timestamp |-> timestamp,
                      thread_ts |-> thread_ts, user_id |-> message_data.user,
                      text |-> message_data.text, stored_id |-> storage_id,
                      stored_at |-> clock, read |-> FALSE, readAt |-> 0]
  IN [files |-> [fls EXCEPT ![storage_id] =
                   [exists |-> TRUE, damage |-> "none", fm |-> frontmatter,
                    body |-> build_message_body(frontmatter)]],
      ret |-> storage_id]

write_message(fls, clock, channel_id, timestamp, message_data, thread_ts, skip_existing) ==
  LET storage_id == generate_storage_id(channel_id, timestamp, thread_ts)
      frontmatter == [channel_id |-> channel_id, timestamp |-> timestamp,
                      thread_ts |-> thread_ts, user_id |-> message_data.user,
                      text |-> message_data.text, stored_id |-> storage_id,
                      stored_at |-> clock, read |-> FALSE, readAt |-> 0]
  IN IF skip_existing /\ fls[storage_id].exists
     THEN [files |-> fls, ret |-> NoneS]
     ELSE [files |-> [fls EXCEPT ![storage_id] =
                        [exists |-> TRUE, damage |-> "none", fm |-> frontmatter,
                         body |-> build_message_body(frontmatter)]],
           ret |-> storage_id]

\* str.strip() of the body: the title opens it and its text closes it, so
\* only whitespace that ends the text is cut (on the texts of this model).
StripBody(body) ==
  [body EXCEPT !.text = IF @ = "second\n" THEN "second" ELSE @]

\* storage.read_message_file: the frontmatter it returns is a mapping, None
\* (no fences, YAML error, nothing to load) or some other YAML value; the
\* body is what follows the closing fence, stripped.
read_message_file(rec) ==
  IF rec.damage = "none"
  THEN [kind |-> "map", fm |-> rec.fm, body |-> StripBody(rec.body)]
  ELSE IF rec.damage = "notmap"
  THEN [kind |-> "other", fm |-> NoRecord.fm, body |-> StripBody(rec.body)]
  ELSE [kind |-> "none", fm |-> NoRecord.fm, body |-> rec.body]

\* The update without its del frontmatter["offline"]["readAt"].
UpdateKeepingReadAt(fls, clock, storage_id, read) ==
  IF ~fls[storage_id].exists
  THEN [files |-> fls, ret |-> FALSE, raised |-> FALSE]
  ELSE [files |-> [fls EXCEPT ![storage_id].fm.read = read,
                              ![storage_id].fm.readAt = IF read THEN clock ELSE @,
                              ![storage_id].body =
                                 read_message_file(fls[storage_id]).body],
        ret |-> TRUE, raised |-> FALSE]

\* storage.read_message: the frontmatter of the record, None without a file.
read_message(fls, storage_id) ==
  IF fls[storage_id].exists THEN read_message_file(fls[storage_id]).fm
  ELSE NoRecord.fm

\* storage.is_message_read: frontmatter.get("offline", {}).get("read", False)
is_message_read(frontmatter) == frontmatter.read

\* storage.update_message_offline_status: the files it leaves, what it returns.
update_message_offline_status(fls, clock, storage_id, read) ==
  IF ~fls[storage_id].exists
  THEN [files |-> fls, ret |-> FALSE, raised |-> FALSE]
  ELSE IF read_message_file(fls[storage_id]).kind = "none"
  THEN [files |-> fls, ret |-> FALSE, raised |-> FALSE]
  ELSE IF read_message_file(fls[storage_id]).kind = "other"
  THEN [files |-> fls, ret |-> FALSE, raised |-> TRUE]
  ELSE [files |-> [fls EXCEPT ![storage_id].fm.read = read,
                              ![storage_id].fm.readAt = IF read THEN clock ELSE 0,
                              ![storage_id].body =
                                 read_message_file(fls[storage_id]).body],
        ret |-> TRUE, raised |-> FALSE]

\* ch in s
HasChar(s, ch) == \E i \in 1..Len(s) : s[i] = ch

\* s.split(ch, 1): the parts before and after the first ch.
SplitFirst(s, ch) ==
  LET i == CHOOSE k \in 1..Len(s) :
             s[k] = ch /\ \A j \in 1..(k - 1) : s[j] # ch
  IN <<SubSeq(s, 1, i - 1), SubSeq(s, i + 1, Len(s))>>

\* utils.formatting.format_event_id
format_event_id(channel_id, timestamp, thread_ts) ==
  IF TruthyS(timestamp)
  THEN LET event_id == channel_id \o <<":">> \o timestamp
       IN IF TruthyS(thread_ts) THEN event_id \o <<"@">> \o thread_ts
          ELSE event_id
  ELSE channel_id

\* parse_event_id that takes everything after the colon for the timestamp.
ParseWithoutThread(event_id) ==
  IF HasChar(event_id, ":")
  THEN <<SplitFirst(event_id, ":")[1], SplitFirst(event_id, ":")[2], NoneS>>
  ELSE <<event_id, NoneS, NoneS>>

\* utils.formatting.parse_event_id: (channel_id, timestamp, thread_ts)
parse_event_id(event_id) ==
  IF HasChar(event_id, ":")
  THEN LET parts == SplitFirst(event_id, ":")
           channel_id == parts[1]
           timestamp_part == parts[2]
       IN IF HasChar(timestamp_part, "@")
          THEN <<channel_id, SplitFirst(timestamp_part, "@")[1],
                 SplitFirst(timestamp_part, "@")[2]>>
          ELSE <<channel_id, timestamp_part, NoneS>>
  ELSE <<event_id, NoneS, NoneS>>

\* str.startswith
StartsWith(s, prefix) ==
  Len(prefix) <= Len(s) /\ SubSeq(s, 1, Len(prefix)) = prefix

\* partial_id.replace(".md", "")
RECURSIVE RemoveMd(_)
RemoveMd(s) ==
  IF Len(s) < 3 THEN s
  ELSE IF SubSeq(s, 1, 3) = <<".", "m", "d">>
  THEN RemoveMd(SubSeq(s, 4, Len(s)))
  ELSE <<Head(s)>> \o RemoveMd(Tail(s))

\* The lookup that settles for the first file the scan comes to.
FindFirstMatch(fls, partial_id) ==
  LET matches == {a \in Addresses :
                    fls[a].exists /\ StartsWith(a, RemoveMd(partial_id))}
  IN IF matches = {} THEN [kind |-> "none", ids |-> {}]
     ELSE [kind |-> "one", ids |-> {CHOOSE a \in matches : TRUE}]

\* storage.find_by_partial_id: no match (None), the one match, or the
\* ValueError that lists the matches.
find_by_partial_id(fls, partial_id) ==
  LET matches == {a \in Addresses :
                    fls[a].exists /\ StartsWith(a, RemoveMd(partial_id))}
  IN IF Cardinality(matches) = 0 THEN [kind |-> "none", ids |-> {}]
     ELSE IF Cardinality(matches) = 1 THEN [kind |-> "one", ids |-> matches]
     ELSE [kind |-> "ambiguous", ids |-> matches]

\* storage.load_all_messages: the records whose frontmatter is truthy, then
\* the sort on frontmatter.get("timestamp"), which is outside the try: it
\* raises AttributeError when a frontmatter is not a mapping.  (The order of
\* the list is not modelled, its members are.)
load_all_messages(fls) ==
  LET loaded == {a \in Addresses :
                   fls[a].exists /\ read_message_file(fls[a]).kind # "none"}
  IN IF \E a \in loaded : read_message_file(fls[a]).kind = "other"
     THEN [raised |-> TRUE, ids |-> {}]
     ELSE [raised |-> FALSE, ids |-> loaded]

\* utils.tracking.save_read_event
save_read_event(events, event_id) == events \cup {event_id}

\* event_id.split("@")[0]
BaseId(event_id) ==
  IF HasChar(event_id, "@") THEN SplitFirst(event_id, "@")[1] ELSE event_id

\* utils.tracking.is_event_read: the id is in the set, or its base is, or a
\* variant of its base is.
is_event_read(events, event_id) ==
  \/ event_id \in events
  \/ HasChar(event_id, "@") /\ BaseId(event_id) \in events
  \/ \E read_id \in events :
       /\ \/ StartsWith(read_id, BaseId(event_id) \o <<"@">>)
          \/ StartsWith(read_id, BaseId(event_id) \o <<":">>)
       /\ BaseId(read_id) = BaseId(event_id)

\* A resolution that settles an ambiguous prefix on one of its candidates.
ResolveFirstCandidate(fls, id_or_event) ==
  LET result == find_by_partial_id(fls, id_or_event)
      a == CHOOSE x \in result.ids : TRUE
  IN IF result.kind = "none"
     THEN [kind |-> "missing", id |-> NoneS, triple |-> <<NoneS, NoneS, NoneS>>]
     ELSE [kind |-> "found", id |-> a,
           triple |-> <<fls[a].fm.channel_id, fls[a].fm.timestamp,
                        fls[a].fm.thread_ts>>]

\* The identifier a command is given resolved to an address: by prefix
\* first, by event id when no file matches and the identifier has a colon.
\* kind: "found", "missing" or "ambiguous"; triple: what is known of the
\* message's channel, timestamp and thread.
Resolve(fls, id_or_event) ==
  LET result == find_by_partial_id(fls, id_or_event)
      parsed == parse_event_id(id_or_event)
      by_event == generate_storage_id(parsed[1], parsed[2], parsed[3])
  IN IF result.kind = "ambiguous"
     THEN [kind |-> "ambiguous", id |-> NoneS, triple |-> <<NoneS, NoneS, NoneS>>]
     ELSE IF result.kind = "one"
     THEN LET a == CHOOSE x \in result.ids : TRUE
              fm == read_message_file(fls[a])
          IN [kind |-> "found", id |-> a,
              triple |-> IF fm.kind = "map"
                         THEN <<fm.fm.channel_id, fm.fm.timestamp, fm.fm.thread_ts>>
                         ELSE <<NoneS, NoneS, NoneS>>]
     ELSE IF HasChar(id_or_event, ":")
     THEN IF by_event \in Addresses /\ fls[by_event].exists
          THEN [kind |-> "found", id |-> by_event, triple |-> parsed]
          ELSE [kind |-> "missing", id |-> NoneS, triple |-> parsed]
     ELSE [kind |-> "missing", id |-> NoneS, triple |-> <<NoneS, NoneS, NoneS>>]

\* commands.inbox_read.inbox_read with offline_only: the files and the legacy
\* read set it leaves, its exit status, the address it marked.
inbox_read(fls, events, clock, id_or_event) ==
  LET r == Resolve(fls, id_or_event)
  IN IF r.kind # "found"
     THEN [files |-> fls, events |-> events, exit |-> 1, id |-> NoneS]
     ELSE [files |-> update_message_offline_status(fls, clock, r.id, TRUE).files,
           events |-> IF TruthyS(r.triple[1]) /\ TruthyS(r.triple[2])
                      THEN save_read_event(events,
                             format_event_id(r.triple[1], r.triple[2], r.triple[3]))
                      ELSE events,
           exit |-> IF update_message_offline_status(fls, clock, r.id, TRUE).raised
                    THEN 1 ELSE 0,
           id |-> r.id]

\* A mark-unread that also takes the message's event id out of the legacy
\* set.
UnreadForgetting(fls, events, clock, id_or_event) ==
  LET r == Resolve(fls, id_or_event)
  IN IF r.kind # "found"
     THEN [files |-> fls, events |-> events, exit |-> 1, id |-> NoneS]
     ELSE [files |-> update_message_offline_status(fls, clock, r.id, FALSE).files,
           events |-> events \ {format_event_id(fls[r.id].fm.channel_id,
                                                 fls[r.id].fm.timestamp,
                                                 fls[r.id].fm.thread_ts)},
           exit |-> 0, id |-> r.id]

\* commands.inbox_read.inbox_unread_offline
inbox_unread_offline(fls, events, clock, id_or_event) ==
  LET r == Resolve(fls, id_or_event)
  IN IF r.kind # "found"
     THEN [files |-> fls, events |-> events, exit |-> 1, id |-> NoneS]
     ELSE [files |-> update_message_offline_status(fls, clock, r.id, FALSE).files,
           events |-> events,
           exit |-> IF update_message_offline_status(fls, clock, r.id, FALSE).raised
                    THEN 1 ELSE 0,
           id |-> r.id]

\* commands.inbox_view.inbox_view_offline: it prints the file or fails.
inbox_view_offline(fls, events, clock, id_or_event) ==
  LET r == Resolve(fls, id_or_event)
  IN IF r.kind = "found"
        /\ (find_by_partial_id(fls, id_or_event).kind = "one"
            \/ read_message_file(fls[r.id]).kind # "none")
     THEN [files |-> fls, events |-> events, exit |-> 0, id |-> r.id]
     ELSE [files |-> fls, events |-> events, exit |-> 1, id |-> NoneS]

\* x or y
OrElse(x, y) == IF TruthyS(x) THEN x ELSE y

\* commands.inbox_read.inbox_mark_thread with offline_only
inbox_mark_thread(fls, events, clock, id_or_event) ==
  LET result == find_by_partial_id(fls, id_or_event)
      a == CHOOSE x \in result.ids : TRUE
      fm == read_message_file(fls[a])
      by_id == result.kind = "one" /\ fm.kind = "map"
      first_thread == IF by_id THEN OrElse(fm.fm.thread_ts, fm.fm.timestamp)
                      ELSE NoneS
      parsed == parse_event_id(id_or_event)
      by_event == ~TruthyS(first_thread) /\ HasChar(id_or_event, ":")
      thread_ts == IF by_event THEN OrElse(parsed[3], parsed[2]) ELSE first_thread
      channel_id == IF by_event THEN parsed[1]
                    ELSE IF by_id THEN fm.fm.channel_id ELSE NoneS
      all_messages == load_all_messages(fls)
      thread_messages ==
        {x \in all_messages.ids :
           /\ fls[x].fm.channel_id = channel_id
           /\ \/ OrElse(fls[x].fm.thread_ts, fls[x].fm.timestamp) = thread_ts
              \/ fls[x].fm.timestamp = thread_ts}
      failed == [files |-> fls, events |-> events, exit |-> 1, id |-> NoneS]
  IN IF result.kind = "ambiguous" THEN failed
     ELSE IF ~TruthyS(thread_ts) \/ ~TruthyS(channel_id) THEN failed
     ELSE IF all_messages.raised \/ thread_messages = {} THEN failed
     ELSE [files |-> [x \in Addresses |->
                       IF x \in thread_messages
                       THEN update_message_offline_status(fls, clock, x, TRUE).files[x]
                       ELSE fls[x]],
           events |-> events \cup
                        {format_event_id(fls[x].fm.channel_id, fls[x].fm.timestamp,
                                         fls[x].fm.thread_ts) : x \in thread_messages},
           exit |-> 0, id |-> NoneS]

\* What a user passes for an identifier: prefixes, whole addresses, a file
\* name, event ids.
Identifiers ==
  {<<"c">>, <<"c", "8">>, <<"c", "9">>, <<"6">>, <<"z">>,
   <<"c", "8", ".", "m", "d">>,
   <<"C", ":", "1">>, <<"C", ":", "6">>, <<"C", ":", "6", "@", "1">>}

\* The command operators by name.
RunCommand(op, fls, events, clock, id_or_event) ==
  CASE op = "read" -> inbox_read(fls, events, clock, id_or_event)
    [] op = "unread" -> inbox_unread_offline(fls, events, clock, id_or_event)
    [] op = "thread" -> inbox_mark_thread(fls, events, clock, id_or_event)
    [] op = "view" -> inbox_view_offline(fls, events, clock, id_or_event)

\* One inbox command runs.
Command(op, id_or_event) ==
  /\ cmd_last.n < MaxCommands
  /\ LET r == RunCommand(op, files, read_events, now, id_or_event)
     IN /\ files' = r.files
        /\ read_events' = r.events
        /\ cmd_last' = [n |-> cmd_last.n + 1, op |-> op, arg |-> id_or_event,
                        exit |-> r.exit, id |-> r.id,
                        triple |-> <<NoneS, NoneS, NoneS>>,
                        parsed |-> <<NoneS, NoneS, NoneS>>, ids |-> {}]
  /\ UNCHANGED <<now, store_last, pull_stats, store_ops>>
  /\ UNCHANGED engineVars

InboxRead(id_or_event) == Command("read", id_or_event)

InboxUnreadOffline(id_or_event) == Command("unread", id_or_event)

InboxMarkThread(id_or_event) == Command("thread", id_or_event)

InboxViewOffline(id_or_event) == Command("view", id_or_event)

\* The channel, timestamp and thread values event ids are made of: Slack's
\* identifiers, and text with the delimiters of the event id in it.
EventChannels == {<<"C">>, <<"D">>, <<"C", ":", "1">>, <<"C", "@", "1">>}

EventTimestamps == {<<"1">>, <<"6">>, <<"1", "@", "6">>, <<"1", ":", "6">>}

EventThreads == {<<"1">>, <<"6">>, <<"1", "@", "6">>}

\* The three field combinations of format_event_id.
EventTriples ==
  {<<c, NoneS, NoneS>> : c \in EventChannels}
  \cup {<<c, t, NoneS>> : c \in EventChannels, t \in EventTimestamps}
  \cup {<<c, t, th>> : c \in EventChannels, t \in EventTimestamps,
                       th \in EventThreads}

\* An event id is formatted from a triple and parsed again.
FormatParse(triple) ==
  /\ cmd_last.n < MaxCommands
  /\ LET event_id == format_event_id(triple[1], triple[2], triple[3])
     IN cmd_last' = [n |-> cmd_last.n + 1, op |-> "format", arg |-> event_id,
                     exit |-> 0, id |-> NoneS, triple |-> triple,
                     parsed |-> parse_event_id(event_id), ids |-> {}]
  /\ UNCHANGED <<files, read_events, now, store_last, pull_stats, store_ops>>
  /\ UNCHANGED engineVars

\* A stored file stops being what write_message wrote (a cut-off write, an
\* edit by hand).
Damage(storage_id, damage) ==
  /\ files[storage_id].exists
  /\ files[storage_id].damage = "none"
  /\ files' = [files EXCEPT ![storage_id].damage = damage]
  /\ UNCHANGED <<read_events, cmd_last, now, store_last, pull_stats, store_ops>>
  /\ UNCHANGED engineVars

\* A call of storage.load_all_messages: exit 1 when it raised, ids the
\* addresses of the list it returned.
LoadAllMessages ==
  /\ cmd_last.n < MaxCommands
  /\ LET r == load_all_messages(files)
     IN cmd_last' = [n |-> cmd_last.n + 1, op |-> "load", arg |-> <<>>,
                     exit |-> IF r.raised THEN 1 ELSE 0, id |-> NoneS,
                     triple |-> <<NoneS, NoneS, NoneS>>,
                     parsed |-> <<NoneS, NoneS, NoneS>>, ids |-> r.ids]
  /\ UNCHANGED <<files, read_events, now, store_last, pull_stats, store_ops>>
  /\ UNCHANGED engineVars

\* Time passes.
Tick ==
  /\ now < MaxClock
  /\ now' = now + 1
  /\ UNCHANGED <<files, store_last, pull_stats, store_ops, read_events,
                 cmd_last>>
  /\ UNCHANGED engineVars

\* A call of storage.write_message.
WriteMessage(channel_id, timestamp, message_data, thread_ts, skip_existing) ==
  /\ store_ops < MaxStoreOps
  /\ store_ops' = store_ops + 1
  /\ LET r == write_message(files, now, channel_id, timestamp, message_data,
                            thread_ts, skip_existing)
     IN /\ files' = r.files
        /\ store_last' = [n |-> store_ops + 1, op |-> "write",
                          id |-> generate_storage_id(channel_id, timestamp, thread_ts),
                          data |-> message_data, skip |-> skip_existing,
                          ret |-> r.ret]
  /\ UNCHANGED <<now, pull_stats, read_events, cmd_last>>
  /\ UNCHANGED engineVars

\* A call of storage.update_message_offline_status.
UpdateOfflineStatus(storage_id, read) ==
  /\ store_ops < MaxStoreOps
  /\ store_ops' = store_ops + 1
  /\ LET r == update_message_offline_status(files, now, storage_id, read)
     IN /\ files' = r.files
        /\ store_last' = [n |-> store_ops + 1, op |-> "update",
                          id |-> storage_id, data |-> NoData, skip |-> read,
                          ret |-> IF r.ret THEN storage_id ELSE NoneS]
  /\ UNCHANGED <<now, pull_stats, read_events, cmd_last>>
  /\ UNCHANGED engineVars

\* One round of the loop of pull._pull_single_channel over the fetched
\* history: msg is stored unless it is older than since_dt.
PullMessage(channel_id, msg, old) ==
  /\ store_ops < MaxStoreOps
  /\ store_ops' = store_ops + 1
  /\ IF old
     THEN /\ pull_stats' = [pull_stats EXCEPT !.fetched = @ + 1]
          /\ files' = files
          /\ store_last' = [n |-> store_ops + 1, op |-> "pullskip",
                            id |-> NoneS, data |-> NoData, skip |-> TRUE,
                            ret |-> NoneS]
     ELSE LET thread_ts == IF msg.thread_ts # msg.ts THEN msg.thread_ts ELSE NoneS
              r == write_message(files, now, channel_id, msg.ts, msg.data,
                                 thread_ts, TRUE)
          IN /\ files' = r.files
             /\ pull_stats' = IF TruthyS(r.ret)
                              THEN [pull_stats EXCEPT !.fetched = @ + 1,
                                                      !.stored = @ + 1]
                              ELSE [pull_stats EXCEPT !.fetched = @ + 1,
                                                      !.skipped = @ + 1]
             /\ store_last' = [n |-> store_ops + 1, op |-> "pull",
                               id |-> generate_storage_id(channel_id, msg.ts, thread_ts),
                               data |-> msg.data, skip |-> TRUE,
                               ret |-> r.ret]
  /\ UNCHANGED <<now, read_events, cmd_last>>
  /\ UNCHANGED engineVars

StoreNext ==
  \/ Tick
  \/ \E c \in StoreChannels, t \in StoreTimestamps, d \in MessageDatas,
        th \in StoreThreads, skip \in BOOLEAN :
       WriteMessage(c, t, d, th, skip)
  \/ \E a \in Addresses, read \in BOOLEAN : UpdateOfflineStatus(a, read)
  \/ \E c \in StoreChannels, t \in StoreTimestamps, d \in MessageDatas,
        th \in StoreThreads \cup StoreTimestamps, old \in BOOLEAN :
       PullMessage(c, [ts |-> t, thread_ts |-> th, data |-> d], old)

\* The payload the inbox's messages were stored with.
InboxData == [user |-> "U1", text |-> "first"]

\* Messages are stored and inbox commands run on them.
InboxNext ==
  \/ \E c \in StoreChannels, t \in StoreTimestamps, th \in StoreThreads :
       WriteMessage(c, t, InboxData, th, TRUE)
  \/ \E id \in Identifiers : InboxRead(id)
  \/ \E id \in Identifiers : InboxUnreadOffline(id)
  \/ \E id \in Identifiers : InboxMarkThread(id)
  \/ \E id \in Identifiers : InboxViewOffline(id)

\* Messages are stored, stored files are damaged, the store is enumerated.
ScanNext ==
  \/ \E c \in StoreChannels, t \in StoreTimestamps, th \in StoreThreads :
       WriteMessage(c, t, InboxData, th, TRUE)
  \/ \E a \in Addresses, d \in Damages : Damage(a, d)
  \/ LoadAllMessages

\* Event ids are formatted and parsed.
EventIdNext == \E triple \in EventTriples : FormatParse(triple)

\* ------------------------------------------------------------------ specifications
NoFiles == [a \in Addresses |-> NoRecord]

NoStoreCall == [n |-> 0, op |-> "none", id |-> NoneS, data |-> NoData,
                skip |-> FALSE, ret |-> NoneS]

NoCommand == [n |-> 0, op |-> "none", arg |-> <<>>, exit |-> 0, id |-> NoneS,
              triple |-> <<NoneS, NoneS, NoneS>>,
              parsed |-> <<NoneS, NoneS, NoneS>>, ids |-> {}]

\* The state after construction: WatchEngine.__init__, the module globals of
\* watch.py, an empty storage directory.
Init ==
  /\ running = FALSE
  /\ stats = [n \in StatNames |-> 0]
  /\ seen = {}
  /\ rules = <<>>
  /\ channel_cache = [n \in ChannelNames |-> None]
  /\ load = NoLoad
  /\ pending = <<>>
  /\ wfs = <<>>
  /\ fs = [p \in {BufferPath, TempPath} |-> AbsentFile]
  /\ loop_owner = 0
  /\ last = NoCall
  /\ evicted = FALSE
  /\ frames = 0
  /\ loads = 0
  /\ files = NoFiles
  /\ now = 1
  /\ store_last = NoStoreCall
  /\ pull_stats = [fetched |-> 0, stored |-> 0, skipped |-> 0]
  /\ store_ops = 0
  /\ read_events = {}
  /\ cmd_last = NoCommand

\* The engine once server._init_watch_engine has loaded the rules (every
\* channel but "ghost" resolved) and started it.
WorkflowInit ==
  /\ running = TRUE
  /\ stats = [n \in StatNames |-> 0]
  /\ seen = {}
  /\ rules = LoadedRules
  /\ channel_cache = LoadedCache
  /\ load = NoLoad
  /\ pending = <<>>
  /\ wfs = <<>>
  /\ fs = [p \in {BufferPath, TempPath} |-> AbsentFile]
  /\ loop_owner = 0
  /\ last = NoCall
  /\ evicted = FALSE
  /\ frames = 0
  /\ loads = 1
  /\ files = NoFiles
  /\ now = 1
  /\ store_last = NoStoreCall
  /\ pull_stats = [fetched |-> 0, stored |-> 0, skipped |-> 0]
  /\ store_ops = 0
  /\ read_events = {}
  /\ cmd_last = NoCommand

\* The engine's ingestion: its API, the frame callback, process_message.
Spec == Init /\ [][Next]_vars

\* The engine's ingestion across reloads of its configuration.
ReloadSpec == Init /\ [][ReloadNext]_vars

\* The workflows of a started engine.
WorkflowSpec == WorkflowInit /\ [][WorkflowNext]_vars

\* One started engine, every result of its commands.
CommandSpec == WorkflowInit /\ [][CommandNext]_vars

\* The same, with tasks that are scheduled and commands that end.
CommandFairSpec == WorkflowInit /\ [][CommandNext]_vars /\ CommandFairness

\* The inbox commands over the message store.
InboxSpec == Init /\ [][InboxNext]_vars

\* The event id's two conversions.
EventIdSpec == Init /\ [][EventIdNext]_vars

\* The enumeration of a store that holds damaged files.
ScanSpec == Init /\ [][ScanNext]_vars

\* The message store.
StoreSpec == Init /\ [][StoreNext]_vars

\* ------------------------------------------------------------------ claims
\* C1: a write_message with skip_existing on an address that holds no record
\* returns the address and stores the payload (unread); on an address that
\* holds a record it returns None and leaves every file as it was, whatever
\* the payload.  (A round of pull is such a write.)
C1_WriteIdempotentByIdentity ==
  [][ (store_last'.n # store_last.n /\ store_last'.op \in {"write", "pull"}
       /\ store_last'.skip)
      => LET id == store_last'.id
         IN IF files[id].exists
            THEN store_last'.ret = NoneS /\ files' = files
            ELSE /\ store_last'.ret = id
                 /\ files'[id].exists
                 /\ files'[id].fm.user_id = store_last'.data.user
                 /\ files'[id].fm.text = store_last'.data.text
                 /\ files'[id].fm.stored_id = id
                 /\ ~files'[id].fm.read
                 /\ \A a \in Addresses \ {id} : files'[a] = files[a] ]_vars

\* C1's case: a second write, with another payload, of a record marked read.
C1_Witness ==
  /\ store_last.op = "write" /\ store_last.skip
  /\ store_last.ret = NoneS
  /\ files[store_last.id].exists
  /\ files[store_last.id].fm.text # store_last.data.text
  /\ files[store_last.id].fm.read

KeyOf(wf) == <<wf.channel, wf.ts>>

WorkflowsOf(k) == {w \in 1..Len(wfs) : KeyOf(wfs[w]) = k}

RECURSIVE SumExecs(_)
SumExecs(ws) ==
  IF ws = {} THEN 0
  ELSE LET w == CHOOSE x \in ws : TRUE
       IN wfs[w].execs + SumExecs(ws \ {w})

\* C2: as long as the window has not evicted, a (channel, ts) pair has at most
\* one workflow and at most one command started for it, however often and
\* however concurrently it is delivered.
C2_AtMostOnce ==
  ~evicted =>
    \A k \in Keys : Cardinality(WorkflowsOf(k)) <= 1 /\ SumExecs(WorkflowsOf(k)) <= 1

\* C2's case: one event delivered twice, the second delivery found a
\* duplicate, and the one workflow has started its command.
C2_Witness ==
  /\ ~evicted
  /\ last.n = 2 /\ last.dup = "dup"
  /\ Cardinality(WorkflowsOf(<<last.event.channel, last.event.ts>>)) = 1
  /\ SumExecs(WorkflowsOf(<<last.event.channel, last.event.ts>>)) = 1

\* C3: when _is_duplicate has reported a pair new, the pair is in the window,
\* so that the call that follows at once with the same pair reports a
\* duplicate -- also when the first call ran the bulk eviction.
C3_NewThenDuplicate ==
  last.dup = "new" => <<last.event.channel, last.event.ts>> \in seen

\* C4: the window never holds more than MAX_SEEN entries.
C4_WindowBounded == Cardinality(seen) <= MAX_SEEN

\* C4's case: the bulk eviction has run and the window is full again.
C4_Witness == evicted /\ Cardinality(seen) = MAX_SEEN

\* lit occurs in text: text is some prefix, then lit, then some suffix.
Occurs(lit, text) ==
  \E i \in 0..Len(text), j \in 1..(Len(text) + 1) :
    SubSeq(text, 1, i) \o lit \o SubSeq(text, j, Len(text)) = text

\* Rule r is bound to the event's channel and its pattern is found in the text.
Fits(r, e) ==
  /\ r.channel_id = e.channel
  /\ Occurs(Fold(r.pattern.lit, r.pattern.icase), Fold(e.text, r.pattern.icase))

Fitting(e) == {i \in 1..Len(rules) : Fits(rules[i], e)}

Primary(e) == e.type = "message" /\ e.subtype = None

\* C5: a call of process_message creates a workflow only if the engine runs,
\* the event is a message without subtype, and the workflow's rule is one of
\* the active rules, bound to the event's channel, whose pattern matches the
\* text; and a running engine creates one for every such event not yet seen
\* that some active rule fits.
C5_FiresOnlyAndAlways ==
  [][ last'.n # last.n =>
      LET e == last'.event
      IN /\ Len(wfs') # Len(wfs) =>
              /\ running /\ Primary(e)
              /\ Len(wfs') = Len(wfs) + 1
              /\ \E i \in 1..Len(rules) : wfs'[Len(wfs')].rule = rules[i]
              /\ Fits(wfs'[Len(wfs')].rule, e)
         /\ (running /\ Primary(e) /\ <<e.channel, e.ts>> \notin seen
             /\ Fitting(e) # {})
              => Len(wfs') = Len(wfs) + 1 ]_vars

\* C5's case: one event has fired, and a new message in the other channel,
\* whose text a rule of the first channel matches, has not.
C5_Witness ==
  /\ Len(rules) = 3 /\ Len(wfs) = 1
  /\ last.event = MessageEvent(CH2, TS1) /\ last.dup = "new" /\ ~last.ret
  /\ \E i \in 1..Len(rules) :
       Occurs(Fold(rules[i].pattern.lit, rules[i].pattern.icase),
              Fold(last.event.text, rules[i].pattern.icase))

\* C6: for a new eligible event the workflow created is the one of the first
\* active rule that fits, exactly one, with messages_matched up by one; when
\* no rule fits nothing is created and messages_matched stays.
C6_FirstMatchWins ==
  [][ (last'.n # last.n /\ last'.dup = "new") =>
      LET e == last'.event
          M == Fitting(e)
      IN IF M = {}
         THEN /\ wfs' = wfs
              /\ stats'.messages_matched = stats.messages_matched
              /\ ~last'.ret
         ELSE LET f == CHOOSE i \in M : \A j \in M : i <= j
              IN /\ wfs' = Append(wfs, NewWorkflow(rules[f], e))
                 /\ stats'.messages_matched = stats.messages_matched + 1
                 /\ last'.ret /\ last'.rule = f ]_vars

\* C6's case: the event fired the first rule although the second fits too.
C6_Witness ==
  /\ last.dup = "new" /\ last.rule = 1 /\ Len(wfs) = 1
  /\ Len(rules) >= 2 /\ Fits(rules[2], last.event)
  /\ wfs[1].rule = rules[1]

\* C7: a process_message that runs while the engine is stopped returns false
\* and changes no counter, not the window, no workflow; a frame received
\* while it is stopped creates no task; and a start brings nothing back.
C7_StoppedIgnores ==
  [][ /\ (last'.n # last.n /\ ~running) =>
           (~last'.ret /\ stats' = stats /\ seen' = seen /\ wfs' = wfs)
      /\ (frames' # frames /\ ~running) =>
           (pending' = pending /\ stats' = stats /\ seen' = seen /\ wfs' = wfs)
      /\ (running' /\ ~running) =>
           (pending' = pending /\ stats' = stats /\ seen' = seen /\ wfs' = wfs)
    ]_vars

\* C7's case: a new message that a rule fits was processed while stopped.
C7_Witness ==
  /\ ~running /\ last.n >= 1 /\ last.dup = "skipped" /\ ~last.ret
  /\ Primary(last.event) /\ Fitting(last.event) # {}
  /\ <<last.event.channel, last.event.ts>> \notin seen
  /\ wfs = <<>>

\* C8: for an eligible event whose pair is in the window a running engine
\* adds one to duplicates_skipped and changes nothing else.
C8_DuplicateOnlyCounts ==
  [][ (last'.n # last.n /\ running /\ Primary(last'.event)
       /\ <<last'.event.channel, last'.event.ts>> \in seen) =>
      /\ stats' = [stats EXCEPT !["duplicates_skipped"] = @ + 1]
      /\ seen' = seen /\ wfs' = wfs /\ ~last'.ret
      /\ UNCHANGED <<running, rules, channel_cache, load, fs>> ]_vars

\* C8's case: a redelivered event that a rule fits was skipped.
C8_Witness ==
  /\ last.dup = "dup" /\ stats["duplicates_skipped"] = 1
  /\ Fitting(last.event) # {} /\ Len(wfs) = 1
  /\ stats["messages_matched"] = 1

\* One whole payload, written by one workflow.
CompletePayload(d) ==
  /\ Len(d) = PayloadParts
  /\ \E w \in 1..Len(wfs) :
       \A k \in 1..PayloadParts : d[k] = [wf |-> w, part |-> k]

\* C9: the file at the buffer path is absent or holds one complete payload of
\* one workflow.
C9_HandOffAtomic ==
  fs["buffer.json"].exists => CompletePayload(fs["buffer.json"].data)

\* C9's case: a command is running (a reader) beside the buffer file of one
\* workflow while another workflow is part-way through its temporary file.
C9_Witness ==
  /\ fs["buffer.json"].exists
  /\ fs["buffer.tmp"].exists /\ Len(fs["buffer.tmp"].data) < PayloadParts
  /\ \E w \in 1..Len(wfs) : wfs[w].pc = "running"
  /\ \E w \in 1..Len(wfs) : loop_owner = w /\ fs["buffer.json"].data[1].wf # w

\* C10: while a command has not terminated (and no coroutine is in the middle
\* of a step), a queued process_message can run, a frame can be received and
\* a created workflow can start.
C10_IngestionNotBlocked ==
  \A w \in 1..Len(wfs) :
    (wfs[w].pc = "running" /\ loop_owner = 0) =>
      /\ pending # <<>> => ENABLED ProcessMessage
      /\ (frames < MaxWfFrames /\ Len(pending) < MaxPending) =>
           ENABLED (\E m \in Events : FrameReceived(m, MaxWfFrames))
      /\ \A v \in 1..Len(wfs) : wfs[v].pc = "created" => ENABLED WfStart(v)

\* C10's case: two commands are running at once.
C10_Witness ==
  /\ Len(wfs) = 2
  /\ wfs[1].pc = "running" /\ wfs[2].pc = "running"

\* Bytes that hold something besides white space.
HasText(b) == \E i \in 1..Len(b) : b[i] \notin {" ", "\n"}

\* The publisher is called for workflow w in this step.
Publishes(w) == wfs[w].pc # "posting" /\ wfs'[w].pc = "posting"

\* C11: the publisher is called for a workflow only when its command has
\* exited with status 0, its rule's reply flag is set and stdout or stderr
\* holds more than white space; when they hold nothing else (status 0) the
\* workflow ends without a call and replies_posted and errors stay.
C11_ReplyOnlyWithOutput ==
  [][ \A w \in 1..Len(wfs) :
        /\ Publishes(w) =>
             /\ wfs[w].pc = "exited" /\ wfs[w].rc = 0
             /\ wfs[w].rule.reply
             /\ HasText(wfs[w].stdout) \/ HasText(wfs[w].stderr)
        /\ (wfs[w].pc = "exited" /\ wfs'[w].pc # "exited" /\ wfs[w].rc = 0
            /\ ~HasText(wfs[w].stdout) /\ ~HasText(wfs[w].stderr)) =>
             /\ wfs'[w].pc = "done"
             /\ stats'["replies_posted"] = stats["replies_posted"]
             /\ stats'["errors"] = stats["errors"] ]_vars

\* C11's case: the command of a rule with the reply flag has succeeded and the
\* workflow is over with no reply and no error counted.
C11_Witness ==
  /\ Len(wfs) = 1 /\ wfs[1].pc = "done" /\ wfs[1].rule.reply
  /\ stats["commands_executed"] = 1
  /\ stats["replies_posted"] = 0 /\ stats["errors"] = 0

\* The event a workflow was created for.
EventOf(wf) == MessageEvent(wf.channel, wf.ts)

\* C12: a reply goes to the channel of the triggering event, in the thread
\* the event belongs to when it carries a thread_ts and in a new thread rooted
\* at the event otherwise.
C12_ReplyTarget ==
  \A w \in 1..Len(wfs) :
    wfs[w].reply_to # NoReply =>
      LET E == EventOf(wfs[w])
      IN /\ wfs[w].reply_to.channel = E.channel
         /\ wfs[w].reply_to.thread_ts =
              IF E.thread_ts # None THEN E.thread_ts ELSE E.ts

\* C12's case: a reply to an event inside a thread has been posted.
C12_Witness ==
  /\ stats["replies_posted"] = 1
  /\ \E w \in 1..Len(wfs) :
       /\ wfs[w].pc = "done" /\ wfs[w].reply_to # NoReply
       /\ EventOf(wfs[w]).thread_ts # None
       /\ wfs[w].reply_to.thread_ts # wfs[w].ts

\* C13: a command that exits non-zero, or a workflow that raises before its
\* command has succeeded, adds exactly one to errors and leaves
\* commands_executed and replies_posted alone, with no reply; a publish that
\* fails or raises adds exactly one to errors; and no workflow runs its
\* command or its publish twice.
C13_FailureCountsOnce ==
  [][ \A w \in 1..Len(wfs) :
        /\ ((wfs[w].pc = "exited" /\ wfs[w].rc # 0 /\ wfs'[w].pc # "exited")
            \/ (wfs[w].pc = "spawn" /\ wfs'[w].pc = "done")) =>
             /\ stats'["errors"] = stats["errors"] + 1
             /\ stats'["commands_executed"] = stats["commands_executed"]
             /\ stats'["replies_posted"] = stats["replies_posted"]
             /\ wfs'[w].pc = "done" /\ wfs'[w].reply_to = NoReply
        /\ (wfs[w].pc = "posting" /\ wfs'[w].pc # "posting"
            /\ stats'["replies_posted"] = stats["replies_posted"]) =>
             /\ stats'["errors"] = stats["errors"] + 1
             /\ wfs'[w].pc = "done"
        /\ wfs[w].pc = "done" => wfs'[w].pc = "done"
        /\ wfs'[w].execs <= 1 ]_vars

C17_ReadStateRoundTrip ==
  [][ /\ (store_last'.n # store_last.n /\ store_last'.op = "update"
          /\ files[store_last'.id].exists) =>
           LET a == store_last'.id
               fm == read_message(files', a)
           IN /\ store_last'.ret = a
              /\ is_message_read(fm) = store_last'.skip
              /\ store_last'.skip => fm.readAt = now
              /\ ~store_last'.skip => fm.readAt = 0
      /\ \A a \in Addresses :
           (is_message_read(read_message(files', a))
            /\ ~is_message_read(read_message(files, a))) =>
             (store_last'.op = "update" /\ store_last'.id = a
              /\ store_last'.skip) ]_vars

\* C17's case: a record stored at one instant has been marked read at a later
\* one.
C17_Witness ==
  /\ store_last.op = "update" /\ store_last.skip
  /\ store_last.ret = store_last.id
  /\ is_message_read(read_message(files, store_last.id))
  /\ files[store_last.id].fm.readAt = now
  /\ files[store_last.id].fm.stored_at < now

\* The stored addresses that begin with p.
Beginning(p) ==
  {a \in Addresses :
     files[a].exists /\ \E k \in 0..Len(a) : SubSeq(a, 1, k) = p}

\* What the lookup is to answer when the stored addresses that match are M.
Answers(result, M) ==
  /\ Cardinality(M) = 0 => result.kind = "none"
  /\ Cardinality(M) = 1 => (result.kind = "one" /\ result.ids = M)
  /\ Cardinality(M) >= 2 => (result.kind = "ambiguous" /\ result.ids = M)

\* C15 as stated: for every identifier, find_by_partial_id answers by the
\* stored addresses that begin with the identifier: the one match, None for
\* none, the ambiguity error (listing them) for two or more; so a whole
\* address yields its own record.
C15_PrefixLookup ==
  \A p \in Identifiers : Answers(find_by_partial_id(files, p), Beginning(p))

\* C15 amended: the same, for the identifier with each ".md" taken out of it.
C15_PrefixLookupAfterMd ==
  /\ \A p \in Identifiers :
       Answers(find_by_partial_id(files, p), Beginning(RemoveMd(p)))
  /\ \A a \in Addresses :
       files[a].exists =>
         (find_by_partial_id(files, a).kind = "one"
          /\ find_by_partial_id(files, a).ids = {a})

\* C15's case: two stored addresses begin with the prefix a command was
\* given, and the command failed.
C15_Witness ==
  /\ Cardinality(Beginning(<<"c">>)) = 2
  /\ cmd_last.arg = <<"c">> /\ cmd_last.exit = 1
  /\ Cardinality(Beginning(<<"c", "8">>)) = 1

\* C16: a mark-read, mark-unread, mark-thread or offline-view command whose
\* identifier begins two or more stored addresses ends with exit status 1,
\* settles on no record, and leaves every record and the legacy read set
\* as they were.
C16_AmbiguousPrefixRefused ==
  [][(cmd_last'.n # cmd_last.n /\ Cardinality(Beginning(cmd_last'.arg)) >= 2)
       => /\ cmd_last'.exit = 1
          /\ cmd_last'.id = NoneS
          /\ files' = files
          /\ read_events' = read_events]_vars

\* C16's case: after a message was marked read, a mark-thread command given
\* a prefix of two stored addresses failed.
C16_Witness ==
  /\ cmd_last.n = 2 /\ cmd_last.op = "thread"
  /\ cmd_last.arg = <<"c">> /\ cmd_last.exit = 1
  /\ Cardinality(Beginning(<<"c">>)) = 2
  /\ read_events # {}
  /\ \E a \in Beginning(<<"c">>) : is_message_read(files[a].fm)

AddressOfEvent(event_id) ==
  generate_storage_id(parse_event_id(event_id)[1], parse_event_id(event_id)[2],
                      parse_event_id(event_id)[3])

\* C19: for every triple with a timestamp the content address is the SHA1 of
\* the event id's text; the event id of every stored record leads to the
\* address the record is stored at, which holds the record write_message
\* made for that triple; and marking a message read by its event id does to
\* the store what marking it by its content address does.
C19_EventIdAndAddressAgree ==
  /\ [](\A c \in StoreChannels, t \in StoreTimestamps, th \in StoreThreads :
         LET a == generate_storage_id(c, t, th)
             e == format_event_id(c, t, th)
         IN /\ a = Sha1(e)
            /\ AddressOfEvent(e) = a
            /\ files[a].exists =>
                 /\ files[a].fm.channel_id = c
                 /\ files[a].fm.timestamp = t
                 /\ files[a].fm.thread_ts = th
                 /\ Resolve(files, e).id = a
                 /\ Resolve(files, a).id = a)
  /\ [][(cmd_last'.n # cmd_last.n /\ cmd_last'.op = "read"
         /\ HasChar(cmd_last'.arg, ":")
         /\ AddressOfEvent(cmd_last'.arg) \in Addresses
         /\ files[AddressOfEvent(cmd_last'.arg)].exists)
        => LET a == AddressOfEvent(cmd_last'.arg)
               by_address == inbox_read(files, read_events, now, a)
           IN /\ cmd_last'.exit = 0 /\ cmd_last'.id = a
              /\ files' = by_address.files
              /\ read_events' = by_address.events
              /\ is_message_read(files'[a].fm)]_vars

\* C19's case: the reply stored for C:6@1 was marked read by its event id.
C19_Witness ==
  /\ cmd_last.op = "read" /\ cmd_last.exit = 0
  /\ cmd_last.arg = <<"C", ":", "6", "@", "1">>
  /\ cmd_last.id = <<"c", "9">>
  /\ is_message_read(files[<<"c", "9">>].fm)
  /\ files[<<"c", "9">>].fm.thread_ts = <<"1">>
  /\ <<"C", ":", "6", "@", "1">> \in read_events

\* The stored records that read_message_file reads as written.
Readable == {a \in Addresses : files[a].exists /\ files[a].damage = "none"}

\* C20: load_all_messages does not raise and returns every readable record
\* and no other, whichever stored files are corrupt (no opening fence, no
\* closing fence, invalid YAML, empty frontmatter, frontmatter that is not a
\* mapping).
C20_CorruptRecordsSkipped ==
  [][(cmd_last'.n # cmd_last.n /\ cmd_last'.op = "load")
       => (cmd_last'.exit = 0 /\ cmd_last'.ids = Readable)]_vars

\* C20 with no file whose frontmatter is some YAML value other than a
\* mapping.
C20_SkippedUnlessNotAMap ==
  [][(cmd_last'.n # cmd_last.n /\ cmd_last'.op = "load"
      /\ \A a \in Addresses : files[a].damage # "notmap")
       => (cmd_last'.exit = 0 /\ cmd_last'.ids = Readable)]_vars

\* The rules one channel of a watch section contributes when nothing but
\* the offending rules is dropped: those with a command and a pattern that
\* compiles, in file order, under the identifier the channel resolved to.
KeptOf(ch, channel_id) ==
  LET good == SelectSeq(ch.rules, LAMBDA d : d.shell # "" /\ d.valid)
  IN [k \in 1..Len(good) |->
        [pattern |-> [lit |-> good[k].lit, icase |-> good[k].case_insensitive],
         shell |-> good[k].shell, channel_id |-> channel_id,
         channel_name |-> ch.name, reply |-> good[k].reply]]

\* The same for the whole section from channel i on: the channels that have
\* no identifier in the cache contribute nothing.
RECURSIVE Kept(_, _, _)
Kept(sec, i, cache) ==
  IF i > Len(sec) THEN <<>>
  ELSE (IF cache[sec[i].name] = None THEN <<>>
        ELSE KeptOf(sec[i], cache[sec[i].name]))
       \o Kept(sec, i + 1, cache)

\* A step that ends a load of the watch section of file.
EndsLoad(file) ==
  /\ ~load'.active
  /\ \/ load.active /\ load.file = file /\ \E res \in ChannelIds \cup {None} : LoadResume(res)
     \/ Load(file, MaxReloads)

\* C21: a load of a watch section leaves as the active rules every
\* configured rule, in file order and with its channel's identifier, but the
\* rules whose pattern does not compile and the rules of the channels that
\* did not resolve.
C21_OnlyOffendingRulesDropped ==
  [][\A file \in {"watch", "overflow"} :
       EndsLoad(file) => rules' = Kept(Section(file), 1, channel_cache')]_vars

\* C21 for the section whose one malformed pattern raises re.error.
C21_DroppedOnReError ==
  [][EndsLoad("watch") => rules' = Kept(Section("watch"), 1, channel_cache')]_vars

\* The buffer file holds the whole payload of workflow w.
HandedOff(w) ==
  /\ fs[BufferPath].exists
  /\ Len(fs[BufferPath].data) = PayloadParts
  /\ \A k \in 1..PayloadParts : fs[BufferPath].data[k] = [wf |-> w, part |-> k]

\* C22: whatever the context fetch and the user resolver answer (data,
\* nothing, an exception), the workflow goes on and no error is counted: after
\* the fetch every cached identifier of the payload is resolved and every
\* uncached user is asked for; an answer for one user takes that user off the
\* list, loses no resolution and no context, and the write block is entered
\* exactly when no user is left; and a workflow that is fetching or resolving
\* gets to hand its payload over and to call for its command.
C22_ResolutionFailureDegrades ==
  /\ [][\A w \in 1..Len(wfs) :
         (wfs'[w] # wfs[w] /\ wfs[w].pc \in {"fetch", "resolve"}) =>
           /\ wfs'[w].pc \in {"resolve", "write"}
           /\ (wfs'[w].pc = "write") = (wfs'[w].todo = {})
           /\ stats' = stats
           /\ wfs[w].pc = "fetch" =>
                /\ wfs'[w].resolutions = ExtractIds(wfs'[w]) \cap CachedIds
                /\ wfs'[w].todo =
                     {id \in ExtractIds(wfs'[w]) \ CachedIds : IsUserId(id)}
           /\ wfs[w].pc = "resolve" =>
                /\ wfs'[w].context = wfs[w].context
                /\ wfs[w].resolutions \subseteq wfs'[w].resolutions
                /\ wfs'[w].todo \subseteq wfs[w].todo
                /\ Cardinality(wfs[w].todo \ wfs'[w].todo) = 1
                /\ wfs'[w].resolutions \ wfs[w].resolutions
                     \subseteq wfs[w].todo \ wfs'[w].todo]_vars
  /\ \A w \in 1..MaxCmdFrames :
       (w <= Len(wfs) /\ wfs[w].pc \in {"fetch", "resolve"})
         ~> (w <= Len(wfs) /\ wfs[w].pc = "spawn" /\ HandedOff(w))

\* C22's case: the resolver failed for the author and answered for the user
\* the context mentions; the workflow is at its write block with the context
\* and that one resolution.
C22_Witness ==
  /\ Len(wfs) = 1 /\ wfs[1].pc = "write" /\ loop_owner = 1
  /\ wfs[1].context
  /\ "U2" \in wfs[1].resolutions /\ "U1" \notin wfs[1].resolutions
  /\ stats["errors"] = 0

\* The workflows that have reached an outcome.
ReachedBy(outcome) == {w \in 1..Len(wfs) : outcome \in wfs[w].outcomes}

\* C23: once every task has run to its end, the counters are the numbers of
\* workflows that reached the outcomes (a match, an executed command, a
\* published reply, an error), and the key of every event that started a
\* workflow is in the dedup window.
C23_NoLostUpdate ==
  (pending = <<>> /\ \A w \in 1..Len(wfs) : wfs[w].pc = "done") =>
    /\ stats["messages_matched"] = Len(wfs)
    /\ stats["commands_executed"] = Cardinality(ReachedBy("executed"))
    /\ stats["replies_posted"] = Cardinality(ReachedBy("replied"))
    /\ stats["errors"] = Cardinality(ReachedBy("error"))
    /\ \A w \in 1..Len(wfs) : <<wfs[w].channel, wfs[w].ts>> \in seen

\* C24: while the command of a workflow runs, from its start on, the buffer
\* file holds the payload of that workflow, whatever other workflows are in
\* flight.
C24_BufferHoldsOwnPayload ==
  \A w \in 1..Len(wfs) : wfs[w].pc = "running" => HandedOff(w)

\* The places of a workflow that can follow a place at once.
Successors(pc) ==
  CASE pc = "created" -> {"fetch"}
    [] pc = "fetch" -> {"resolve", "write"}
    [] pc = "resolve" -> {"write"}
    [] pc = "write" -> {"dump"}
    [] pc = "dump" -> {"rename"}
    [] pc = "rename" -> {"spawn"}
    [] pc = "spawn" -> {"running", "done"}
    [] pc = "running" -> {"exited"}
    [] pc = "exited" -> {"posting", "done"}
    [] pc = "posting" -> {"done"}
    [] OTHER -> {}

\* C25: a workflow moves through context fetch, identifier resolution, the
\* write of the hand-off file, the call for the command, the command's exit
\* and the publication of the reply in this order and never back; its
\* command is called for in the step that puts its whole payload at the
\* buffer path and is started only after that; its reply is handed to the
\* publisher only by the step that saw the command exit with status 0, and
\* counted as published only after that.
C25_WorkflowOrder ==
  [][\A w \in 1..Len(wfs) :
       /\ wfs'[w].pc # wfs[w].pc => wfs'[w].pc \in Successors(wfs[w].pc)
       /\ wfs'[w].pc = "spawn" /\ wfs[w].pc # "spawn" => HandedOff(w)'
       /\ wfs'[w].execs # wfs[w].execs =>
            (wfs[w].pc = "spawn" /\ wfs'[w].pc = "running"
             /\ wfs'[w].execs = wfs[w].execs + 1)
       /\ wfs'[w].pc = "posting" /\ wfs[w].pc # "posting" =>
            (wfs[w].pc = "exited" /\ wfs[w].rc = 0
             /\ wfs'[w].reply_to # NoReply)
       /\ wfs'[w].reply_to # wfs[w].reply_to => wfs'[w].pc = "posting"
       /\ "replied" \in wfs'[w].outcomes /\ "replied" \notin wfs[w].outcomes =>
            (wfs[w].pc = "posting" /\ "executed" \in wfs[w].outcomes)]_vars

\* C25's case: a workflow that fetched context, resolved, handed its payload
\* over, ran its command once and had its reply published.
C25_Witness ==
  /\ Len(wfs) = 1 /\ wfs[1].pc = "done" /\ wfs[1].execs = 1
  /\ wfs[1].outcomes = {"executed", "replied"}
  /\ HandedOff(1)
  /\ stats["replies_posted"] = 1

\* C26: the active rules change only in the step that ends a load of a watch
\* section, and then to the whole list of that load; while a load awaits the
\* resolver an event is matched against the active list as it was; a load
\* that finds no file, a file that does not parse, no watch section, or that
\* raises at a pattern, leaves the active list as it was.
C26_RulesSwitchAtOnce ==
  [][/\ rules' # rules =>
          \E file \in {"watch", "overflow"} :
            EndsLoad(file) /\ rules' = Kept(Section(file), 1, channel_cache')
     /\ (load.active /\ load'.active) => rules' = rules
     /\ (load.active /\ last'.n # last.n) =>
          /\ rules' = rules
          /\ Len(wfs') # Len(wfs) =>
               /\ last'.rule \in 1..Len(rules)
               /\ wfs'[Len(wfs')].rule = rules[last'.rule]
               /\ \A i \in 1..(last'.rule - 1) : ~Fits(rules[i], last'.event)
          /\ (running /\ Primary(last'.event) /\ last'.dup = "new"
              /\ Fitting(last'.event) # {}) => Len(wfs') # Len(wfs)
     /\ \A file \in {"missing", "invalid", "nowatch"} :
          Load(file, MaxReloads) => rules' = rules
     /\ (EndsLoad("overflow") /\ channel_cache'["general"] # None) =>
          rules' = rules]_vars

\* C26's case: a reload awaits the resolver with a list built so far that
\* holds rules for C1; the active list, left by the load before, holds none;
\* a message in C1 that those rules match was processed and fired nothing.
C26_Witness ==
  /\ load.active /\ loads = 2
  /\ Len(rules) = 1 /\ rules[1].channel_id = CH2
  /\ Len(load.rules) = 2 /\ load.rules[1].channel_id = CH1
  /\ running /\ last.event = MessageEvent(CH1, TS1)
  /\ last.dup = "new" /\ ~last.ret /\ wfs = <<>>
  /\ Fits(load.rules[1], last.event)

\* C27: a running engine that processes an eligible event whose pair is not
\* in the window counts it as processed and leaves its pair in the window,
\* whether or not a rule fits; start, stop and the steps of a load leave the
\* window as it is; and an event whose pair is in the window is a duplicate
\* and fires nothing, whatever the active rules have become.
C27_UnmatchedEventsRecorded ==
  [][/\ (last'.n # last.n /\ running /\ Primary(last'.event)
         /\ <<last'.event.channel, last'.event.ts>> \notin seen) =>
          /\ stats'["messages_processed"] = stats["messages_processed"] + 1
          /\ <<last'.event.channel, last'.event.ts>> \in seen'
     /\ (running' # running \/ loads' # loads \/ load' # load) => seen' = seen
     /\ (last'.n # last.n /\ running /\ Primary(last'.event)
         /\ <<last'.event.channel, last'.event.ts>> \in seen) =>
          (last'.dup = "dup" /\ wfs' = wfs)]_vars

\* C27 while the window's trim has not run.
C27_RecordedUntilTrim ==
  [][~evicted' =>
      /\ (last'.n # last.n /\ running /\ Primary(last'.event)
          /\ <<last'.event.channel, last'.event.ts>> \notin seen) =>
           /\ stats'["messages_processed"] = stats["messages_processed"] + 1
           /\ <<last'.event.channel, last'.event.ts>> \in seen'
      /\ (running' # running \/ loads' # loads \/ load' # load) => seen' = seen
      /\ (last'.n # last.n /\ running /\ Primary(last'.event)
          /\ <<last'.event.channel, last'.event.ts>> \in seen) =>
           (last'.dup = "dup" /\ wfs' = wfs)]_vars

\* C28: in every state messages_matched <= messages_processed,
\* commands_executed <= messages_matched, replies_posted <=
\* commands_executed and errors <= messages_matched; no step lowers a
\* counter; and a running engine that processes an eligible event adds one
\* to exactly one of messages_processed and duplicates_skipped.
C28_CounterInvariants ==
  /\ [](/\ stats["messages_matched"] <= stats["messages_processed"]
        /\ stats["commands_executed"] <= stats["messages_matched"]
        /\ stats["replies_posted"] <= stats["commands_executed"]
        /\ stats["errors"] <= stats["messages_matched"])
  /\ [][/\ \A n \in StatNames : stats'[n] >= stats[n]
        /\ (last'.n # last.n /\ running /\ Primary(last'.event)) =>
             \/ /\ stats'["messages_processed"] = stats["messages_processed"] + 1
                /\ stats'["duplicates_skipped"] = stats["duplicates_skipped"]
             \/ /\ stats'["messages_processed"] = stats["messages_processed"]
                /\ stats'["duplicates_skipped"] = stats["duplicates_skipped"] + 1]_vars

\* C29: update_message_offline_status changes nothing but the read flag and
\* the read-instant of the addressed record: the rest of its frontmatter and
\* its body, and every other record, are as before; on an address with no
\* record it returns false and the store is as before.
C29_OnlyReadStateChanges ==
  [][(store_last'.n # store_last.n /\ store_last'.op = "update") =>
       LET a == store_last'.id
       IN /\ \A b \in Addresses \ {a} : files'[b] = files[b]
          /\ files'[a].exists = files[a].exists
          /\ files'[a].damage = files[a].damage
          /\ [files'[a].fm EXCEPT !.read = files[a].fm.read,
                                  !.readAt = files[a].fm.readAt] = files[a].fm
          /\ files'[a].body = files[a].body
          /\ ~files[a].exists => (store_last'.ret = NoneS /\ files' = files)
    ]_vars

\* What holds of the body: update_message_offline_status leaves it as
\* read_message_file returns it, i.e. up to the whitespace that surrounds it;
\* the rest of C29 holds as stated.
C29_BodyKeptUpToWhitespace ==
  [][(store_last'.n # store_last.n /\ store_last'.op = "update") =>
       LET a == store_last'.id
       IN /\ \A b \in Addresses \ {a} : files'[b] = files[b]
          /\ files'[a].exists = files[a].exists
          /\ files'[a].damage = files[a].damage
          /\ [files'[a].fm EXCEPT !.read = files[a].fm.read,
                                  !.readAt = files[a].fm.readAt] = files[a].fm
          /\ read_message_file(files'[a]).body = read_message_file(files[a]).body
          /\ ~files[a].exists => (store_last'.ret = NoneS /\ files' = files)
    ]_vars

\* The Event Reference of the record stored at address a.
EventReference(fls, a) ==
  format_event_id(fls[a].fm.channel_id, fls[a].fm.timestamp, fls[a].fm.thread_ts)

\* C30: no step takes an event id out of the legacy read set; a mark-read
\* that finds its message leaves the record read and its Event Reference
\* in the set; a mark-unread that finds its message leaves the record unread
\* and the set as it was, so for a message that was marked read before,
\* is_message_read is false and is_event_read of its Event Reference is
\* still true.
C30_LegacyReadSetOnlyGrows ==
  [][/\ read_events \subseteq read_events'
     /\ (cmd_last'.n # cmd_last.n /\ cmd_last'.op = "read" /\ cmd_last'.exit = 0) =>
          /\ is_message_read(read_message(files', cmd_last'.id))
          /\ EventReference(files', cmd_last'.id) \in read_events'
          /\ is_event_read(read_events', EventReference(files', cmd_last'.id))
     /\ (cmd_last'.n # cmd_last.n /\ cmd_last'.op = "unread" /\ cmd_last'.exit = 0) =>
          /\ ~is_message_read(read_message(files', cmd_last'.id))
          /\ read_events' = read_events
          /\ is_event_read(read_events, EventReference(files, cmd_last'.id)) =>
               is_event_read(read_events', EventReference(files', cmd_last'.id))
    ]_vars

\* C30's case: a message that was marked read has been marked unread: the
\* record is unread and its Event Reference is still reported read.
C30_Witness ==
  /\ cmd_last.n = 2 /\ cmd_last.op = "unread" /\ cmd_last.exit = 0
  /\ files[cmd_last.id].exists
  /\ ~is_message_read(read_message(files, cmd_last.id))
  /\ EventReference(files, cmd_last.id) \in read_events
  /\ is_event_read(read_events, EventReference(files, cmd_last.id))

====
